---- MODULE Spec2Model ----
(***************************************************************************)
(* A model of dicom-imaging-webgpu: the render entry point (index.ts, kept *)
(* in src/src/types.ts), the frame extractor, the frame decoder, the image *)
(* frame assembler, the render pipelines and the two LRU caches.           *)
(*                                                                         *)
(* Data conventions                                                        *)
(*   - JavaScript `undefined` is the string Undefined where the code holds *)
(*     a string, and the empty sequence None where it holds an object: a   *)
(*     variable that is an object or undefined is None or Some(object).    *)
(*   - A number that is absent reads as 0: the code only ever tests the    *)
(*     numeric attributes and options.frameIndex for falsiness (`!rows`,   *)
(*     `x || 0`).                                                          *)
(*   - An ArrayBuffer or a typed array the code makes is a sequence of     *)
(*     numbers.  TLA+ sequences are 1-based, so element p of the code is   *)
(*     element p + 1 of the model.  The caller's Uint8Array, a view that   *)
(*     need not start at byte 0 of its buffer, is [buffer, byteOffset,     *)
(*     length].                                                            *)
(*   - A JavaScript Map is a sequence of [key, value] records in Map       *)
(*     insertion order.                                                    *)
(***************************************************************************)
EXTENDS Integers, Sequences, FiniteSets

Undefined == "undefined"

None == <<>>

Some(v) == <<v>>

Min(a, b) == IF a < b THEN a ELSE b

Max(a, b) == IF a > b THEN a ELSE b

(***************************************************************************)
(* JavaScript Map (the container both caches are built on)                 *)
(***************************************************************************)
MapKeys(m) == {m[i].key : i \in 1..Len(m)}

MapHas(m, k) == k \in MapKeys(m)

MapGet(m, k) ==
  IF MapHas(m, k) THEN Some(m[CHOOSE i \in 1..Len(m) : m[i].key = k].value) ELSE None

MapDelete(m, k) == SelectSeq(m, LAMBDA e : e.key # k)

\* Map.prototype.set keeps the position of a key that is already present.
MapSet(m, k, v) ==
  IF MapHas(m, k)
  THEN [i \in 1..Len(m) |-> IF m[i].key = k THEN [key |-> k, value |-> v] ELSE m[i]]
  ELSE Append(m, [key |-> k, value |-> v])

\* `if (item)`: every value the program stores is an object, hence truthy.
Truthy(v) == v # None

(***************************************************************************)
(* Cache<T> (Cache.ts).  CacheGet is the value get returns, CacheTouch the *)
(* Map it leaves behind, CacheSet the Map that set leaves behind.          *)
(***************************************************************************)
CacheGet(m, k) == MapGet(m, k)

CacheTouch_NoPromote(m, k) == m

CacheTouch(m, k) ==
  LET item == MapGet(m, k)
  IN  IF Truthy(item) THEN MapSet(MapDelete(m, k), k, item[1]) ELSE m

CacheSet_NoEvict(max, m, k, v) ==
  MapSet(IF MapHas(m, k) THEN MapDelete(m, k) ELSE m, k, v)

CacheSet_InPlace(max, m, k, v) ==
  LET m1 == IF ~MapHas(m, k) /\ Len(m) = max /\ Len(m) > 0
            THEN MapDelete(m, m[1].key)
            ELSE m
  IN  MapSet(m1, k, v)

CacheSet(max, m, k, v) ==
  LET m1 == IF MapHas(m, k)
            THEN MapDelete(m, k)
            ELSE IF Len(m) = max
                 THEN (IF Len(m) > 0 THEN MapDelete(m, m[1].key) ELSE m)
                 ELSE m
  IN  MapSet(m1, k, v)

(***************************************************************************)
(* PipelineCache (PipelineCache.ts): the same class specialised to         *)
(* Pipeline values.                                                        *)
(***************************************************************************)
PipelineCacheGet(m, k) == MapGet(m, k)

PipelineCacheTouch(m, k) ==
  LET item == MapGet(m, k)
  IN  IF Truthy(item) THEN MapSet(MapDelete(m, k), k, item[1]) ELSE m

PipelineCacheSet(max, m, k, v) ==
  LET m1 == IF MapHas(m, k)
            THEN MapDelete(m, k)
            ELSE IF Len(m) = max
                 THEN (IF Len(m) > 0 THEN MapDelete(m, m[1].key) ELSE m)
                 ELSE m
  IN  MapSet(m1, k, v)

(***************************************************************************)
(* Constants.ts (not part of the sources at hand): the transfer syntax     *)
(* UIDs FrameDecoder dispatches on, with the values DICOM gives them.      *)
(***************************************************************************)
ImplicitVRLittleEndian == "1.2.840.10008.1.2"

ExplicitVRLittleEndian == "1.2.840.10008.1.2.1"

DeflatedExplicitVRLittleEndian == "1.2.840.10008.1.2.1.99"

ExplicitVRBigEndian == "1.2.840.10008.1.2.2"

RleLossless == "1.2.840.10008.1.2.5"

JpegBaselineProcess1 == "1.2.840.10008.1.2.4.50"

JpegBaselineProcess2_4 == "1.2.840.10008.1.2.4.51"

JpegLosslessProcess14 == "1.2.840.10008.1.2.4.57"

JpegLosslessProcess14V1 == "1.2.840.10008.1.2.4.70"

JpegLsLossless == "1.2.840.10008.1.2.4.80"

JpegLsLossy == "1.2.840.10008.1.2.4.81"

Jpeg2000Lossless == "1.2.840.10008.1.2.4.90"

Jpeg2000Lossy == "1.2.840.10008.1.2.4.91"

HtJpeg2000Lossless == "1.2.840.10008.1.2.4.201"

HtJpeg2000LosslessRpcl == "1.2.840.10008.1.2.4.202"

HtJpeg2000Lossy == "1.2.840.10008.1.2.4.203"

(***************************************************************************)
(* Byte buffers                                                            *)
(***************************************************************************)
\* ArrayBuffer.prototype.slice(begin, end) for 0 <= begin <= end: both ends
\* are clamped to the length of the buffer.
Slice(buf, begin, end) == SubSeq(buf, Min(begin, Len(buf)) + 1, Min(end, Len(buf)))

\* A Uint8Array: a view of `length` bytes of an ArrayBuffer, starting at
\* byteOffset.  NewUint8Array is a view of the whole of a buffer of its own.
NewUint8Array(bytes) == [buffer |-> bytes, byteOffset |-> 0, length |-> Len(bytes)]

\* What `u8[...] = arr[i]` stores for a 0-based index i: the element modulo
\* 256, and 0 for the undefined that a read past the end gives.
Uint8From(arr, i) == IF i >= 0 /\ i < Len(arr) THEN arr[i + 1] % 256 ELSE 0

(***************************************************************************)
(* The sample extractor (index.ts: getPixelData and the two readers).      *)
(* Each operator returns [error, value]: error is Undefined when the code  *)
(* returns value, and names the exception when it throws.                  *)
(***************************************************************************)
Ok(v) == [error |-> Undefined, value |-> v]

Throw(e) == [error |-> e, value |-> None]

\* getEncapsulatedImageFrame: the three readers are dicom-parser's; each of
\* them returns the fragments of the frame or throws when the frame index is
\* beyond the frames the element holds.
getEncapsulatedImageFrame(dataset, frameIndex) ==
  IF frameIndex < Len(dataset.encapsulatedFrames)
  THEN Ok(dataset.encapsulatedFrames[frameIndex + 1])
  ELSE Throw("dicomParser: frame index out of range")

getUncompressedImageFrame(dataset, frameIndex) ==
  LET pixelDataElement == dataset.pixelDataElement
      bitsAllocated    == dataset.bitsAllocated
      rows             == dataset.rows
      columns          == dataset.columns
      samplesPerPixel  == dataset.samplesPerPixel
      pixelDataOffset  == pixelDataElement[1].dataOffset
      pixelsPerFrame   == rows * columns * samplesPerPixel
  IN  IF pixelDataElement = None THEN Throw("Pixel data element is missing")
      ELSE IF bitsAllocated = 0 \/ rows = 0 \/ columns = 0 \/ samplesPerPixel = 0
      THEN Throw("Missing required attributes")
      ELSE IF bitsAllocated = 8
      THEN LET frameOffset == pixelDataOffset + frameIndex * pixelsPerFrame
           IN  IF frameOffset >= dataset.byteArray.length
               THEN Throw("Frame exceeds size of pixel data")
               ELSE Ok(Slice(dataset.byteArray.buffer, frameOffset,
                             frameOffset + pixelsPerFrame))
      ELSE IF bitsAllocated = 16
      THEN LET frameOffset == pixelDataOffset + frameIndex * pixelsPerFrame * 2
           IN  IF frameOffset >= dataset.byteArray.length
               THEN Throw("Frame exceeds size of pixel data")
               ELSE Ok(Slice(dataset.byteArray.buffer, frameOffset,
                             frameOffset + pixelsPerFrame * 2))
      ELSE Throw("Unsupported pixel format")

getPixelData(dataset, frameIndex) ==
  IF dataset.pixelDataElement = None THEN Throw("Pixel data element was not found")
  ELSE IF dataset.pixelDataElement[1].encapsulatedPixelData
  THEN getEncapsulatedImageFrame(dataset, frameIndex)
  ELSE getUncompressedImageFrame(dataset, frameIndex)

(***************************************************************************)
(* The decode dispatcher (FrameDecoder.ts)                                 *)
(***************************************************************************)
LittleEndianSyntaxes ==
  {ImplicitVRLittleEndian, ExplicitVRLittleEndian, DeflatedExplicitVRLittleEndian}

JpegBaselineSyntaxes == {JpegBaselineProcess1, JpegBaselineProcess2_4}

JpegLosslessSyntaxes == {JpegLosslessProcess14, JpegLosslessProcess14V1}

JpegLsSyntaxes == {JpegLsLossless, JpegLsLossy}

Jpeg2000Syntaxes ==
  {Jpeg2000Lossless, Jpeg2000Lossy, HtJpeg2000Lossless, HtJpeg2000LosslessRpcl,
   HtJpeg2000Lossy}

CodecSyntaxes ==
  {RleLossless} \cup JpegBaselineSyntaxes \cup JpegLosslessSyntaxes
    \cup JpegLsSyntaxes \cup Jpeg2000Syntaxes

\* The transfer syntaxes of the dispatch table of decodeFrameData.
SupportedSyntaxes == LittleEndianSyntaxes \cup {ExplicitVRBigEndian} \cup CodecSyntaxes

\* What the codec backend may do with one decode call.
CodecOutcomes == {"decoded", "exception"}

SwapBytes_None(buf) == buf

SwapBytes_Rotated(buf) == [j \in 1..Len(buf) |-> buf[(j % Len(buf)) + 1]]

\* The loop of the big-endian case: the two bytes of every 2-byte unit are
\* exchanged in a copy of the buffer; the last byte of an odd-length buffer is
\* overwritten by the undefined read past the end.
SwapBytes(buf) ==
  [j \in 1..Len(buf) |-> IF j % 2 = 1 THEN Uint8From(buf, j) ELSE buf[j - 1]]

BackendDecode_Partial(context, convertColorspaceToRgb, outcome) ==
  Ok([context EXCEPT !.decodedBuffer = Some(context.encodedBuffer[1])])

\* One codec backend entry point (wasmDecodeRle, wasmDecodeJpeg, ...) with the
\* context built around it.  The backend either reports through
\* onCodecsException, which throws, or leaves a decoded frame of the nominal
\* size in the context; with convertColorspaceToRgb it turns YBR data into RGB.
BackendDecode(context, convertColorspaceToRgb, outcome) ==
  LET size == context.width * context.height * context.samplesPerPixel
                * (context.bitsAllocated \div 8)
      enc  == context.encodedBuffer[1]
  IN  IF outcome = "exception" THEN Throw("codec exception")
      ELSE Ok([context EXCEPT
                 !.decodedBuffer = Some([i \in 1..size |-> enc[((i - 1) % Len(enc)) + 1]]),
                 !.photometricInterpretation =
                    IF convertColorspaceToRgb /\ @ \in {"YBR_FULL", "YBR_FULL_422"}
                    THEN "RGB" ELSE @])

\* _decodeRle, _decodeJpeg, _decodeJpegLs, _decodeJpeg2000
DecodeWithCodec(api, context, convertColorspaceToRgb, outcome) ==
  IF api = Undefined THEN Throw("WebAssembly module is not initialized")
  ELSE BackendDecode(context, convertColorspaceToRgb, outcome)

decodeFrameData_Unchecked(api, transferSyntaxUid, frameParameters, outcome) ==
  Ok([frameParameters EXCEPT !.decodedBuffer = frameParameters.encodedBuffer,
                             !.encodedBuffer = None])

\* FrameDecoder.decodeFrameData; api is FrameDecoder._frameDecoderApi.
decodeFrameData(api, transferSyntaxUid, frameParameters, outcome) ==
  LET decodedContext ==
        IF transferSyntaxUid \in LittleEndianSyntaxes
        THEN Ok([frameParameters EXCEPT !.decodedBuffer = frameParameters.encodedBuffer])
        ELSE IF transferSyntaxUid = ExplicitVRBigEndian
        THEN Ok([frameParameters EXCEPT !.decodedBuffer =
                   IF frameParameters.bitsAllocated > 8
                      /\ frameParameters.bitsAllocated <= 16
                   THEN Some(SwapBytes(frameParameters.encodedBuffer[1]))
                   ELSE frameParameters.encodedBuffer])
        ELSE IF transferSyntaxUid \in JpegBaselineSyntaxes
        THEN DecodeWithCodec(api, frameParameters, TRUE, outcome)
        ELSE IF transferSyntaxUid \in CodecSyntaxes
        THEN DecodeWithCodec(api, frameParameters, FALSE, outcome)
        ELSE Throw("Unsupported transfer syntax UID")
  IN  IF frameParameters.encodedBuffer = None THEN Throw("No encoded buffer provided")
      ELSE IF decodedContext.error # Undefined THEN decodedContext
      ELSE Ok([decodedContext.value EXCEPT !.encodedBuffer = None])

\* The caller's frameParameters.encodedBuffer after decodeFrameData: the
\* little-endian cases hand the same array on and store nothing, the
\* big-endian case stores into the copy `new Uint8Array(encodedBuffer)` makes,
\* and the codec cases copy the bytes into the memory of the backend.
EncodedBufferAfter(transferSyntaxUid, frameParameters) == frameParameters.encodedBuffer

isInitialized_Always(api) == TRUE

\* FrameDecoder.isInitialized
isInitialized(api) == api # Undefined

\* Whether decodeFrameData reaches a codec backend entry point.
InvokesCodec(api, transferSyntaxUid, frameParameters) ==
  /\ frameParameters.encodedBuffer # None
  /\ transferSyntaxUid \in CodecSyntaxes
  /\ api # Undefined

(***************************************************************************)
(* The calls a decode makes on the codec backend, in the order it makes    *)
(* them.  A call is [fn, handle]: the exported function and the context or *)
(* decoder-parameter object it is given (or returns, for the two           *)
(* constructors).                                                          *)
(***************************************************************************)
BackendCall(fn, handle) == [fn |-> fn, handle |-> handle]

CallsOn(handle, fns) == [i \in 1..Len(fns) |-> BackendCall(fns[i], handle)]

\* _createDecoderContext: the context is opened, the scalar attributes and
\* the encoded buffer are pushed into it.
createDecoderContext(context) ==
  CallsOn("ctx",
          <<"wasmCreateCodecsContext", "wasmSetColumns", "wasmSetRows",
            "wasmSetBitsAllocated", "wasmSetBitsStored", "wasmSetSamplesPerPixel",
            "wasmSetPixelRepresentation", "wasmSetPlanarConfiguration",
            "wasmSetPhotometricInterpretation">>
            \o (IF context.encodedBuffer # None
                THEN <<"wasmSetEncodedBufferSize", "wasmGetEncodedBuffer">>
                ELSE <<>>))

\* _createDecoderParameters
createDecoderParameters ==
  CallsOn("params", <<"wasmCreateDecoderParameters", "wasmSetConvertColorspaceToRgb">>)

\* _releaseDecoderParameters
releaseDecoderParameters == CallsOn("params", <<"wasmReleaseDecoderParameters">>)

\* _releaseDecoderContext: the decoded buffer and the scalar attributes are
\* pulled out of the context, then the context is released.
releaseDecoderContext ==
  CallsOn("ctx",
          <<"wasmGetDecodedBuffer", "wasmGetDecodedBufferSize", "wasmGetColumns",
            "wasmGetRows", "wasmGetBitsAllocated", "wasmGetBitsStored",
            "wasmGetSamplesPerPixel", "wasmGetPixelRepresentation",
            "wasmGetPlanarConfiguration", "wasmGetPhotometricInterpretation",
            "wasmReleaseCodecsContext">>)

\* The decode entry point decodeFrameData dispatches a transfer syntax to.
EntryPoint(transferSyntaxUid) ==
  IF transferSyntaxUid = RleLossless THEN "wasmDecodeRle"
  ELSE IF transferSyntaxUid \in JpegBaselineSyntaxes \cup JpegLosslessSyntaxes
  THEN "wasmDecodeJpeg"
  ELSE IF transferSyntaxUid \in JpegLsSyntaxes THEN "wasmDecodeJpegLs"
  ELSE "wasmDecodeJpeg2000"

\* _decodeRle, _decodeJpeg, _decodeJpegLs, _decodeJpeg2000 as the backend
\* sees them: when the entry point reports through onCodecsException, the
\* exception leaves the function from the call of the entry point.
CodecCalls(transferSyntaxUid, context, outcome) ==
  createDecoderContext(context) \o createDecoderParameters
    \o <<BackendCall(EntryPoint(transferSyntaxUid), "ctx")>>
    \o (IF outcome = "exception" THEN <<>>
        ELSE releaseDecoderParameters \o releaseDecoderContext)

\* The backend calls of one FrameDecoder.decodeFrameData.
BackendCalls(api, transferSyntaxUid, frameParameters, outcome) ==
  IF InvokesCodec(api, transferSyntaxUid, frameParameters)
  THEN CodecCalls(transferSyntaxUid, frameParameters, outcome)
  ELSE <<>>

(***************************************************************************)
(* Numeric utilities (utils.ts)                                            *)
(***************************************************************************)
\* NaN (and an undefined number, which arithmetic turns into NaN) is a number
\* outside the range of every value the model computes.
NaN == -1000000000

\* A Uint16Array over the bytes (little-endian), length byteLength / 2 cut to
\* an integer.
Uint16View(bytes) ==
  [i \in 1..(Len(bytes) \div 2) |-> bytes[2 * i - 1] + 256 * bytes[2 * i]]

ToInt16(v) == IF v >= 32768 THEN v - 65536 ELSE v

toTypedPixelData(pixelData, pixelRepresentation, bitsAllocated, bitsStored, highBit) ==
  IF bitsStored = 8 /\ highBit = 7 /\ bitsAllocated = 8 THEN Ok(pixelData)
  ELSE IF bitsAllocated <= 16
  THEN IF pixelRepresentation = 0
       THEN Ok(Uint16View(pixelData))
       ELSE Ok([i \in 1..Len(Uint16View(pixelData)) |-> ToInt16(Uint16View(pixelData)[i])])
  ELSE Throw("Unsupported pixel data value for bits stored")

RECURSIVE MinMaxLoop(_, _, _, _)
MinMaxLoop(pixelData, i, minPixelValue, maxPixelValue) ==
  IF i > Len(pixelData)
  THEN [minPixelValue |-> minPixelValue, maxPixelValue |-> maxPixelValue]
  ELSE IF pixelData[i] < minPixelValue
  THEN MinMaxLoop(pixelData, i + 1, pixelData[i], maxPixelValue)
  ELSE IF pixelData[i] > maxPixelValue
  THEN MinMaxLoop(pixelData, i + 1, minPixelValue, pixelData[i])
  ELSE MinMaxLoop(pixelData, i + 1, minPixelValue, maxPixelValue)

\* An empty array has pixelData[0] undefined, and the loop does not run; the
\* undefined minimum and maximum turn into NaN in every use made of them.
calculateMinMaxPixelValues(pixelData) ==
  IF Len(pixelData) = 0
  THEN [minPixelValue |-> NaN, maxPixelValue |-> NaN]
  ELSE MinMaxLoop(pixelData, 1, pixelData[1], pixelData[1])

\* getNumberValues on the values a multi-valued decimal string holds: an
\* absent (or empty) attribute gives undefined.
getNumberValues(values, minimumLength) ==
  IF values = None THEN None
  ELSE IF Len(values) < minimumLength THEN None
  ELSE values

(***************************************************************************)
(* The image frame assembler (index.ts: createImageFrame).                 *)
(* windowCenter and windowWidth are real-valued ((max + min) / 2): the     *)
(* model keeps both in halves, that is, as twice their value.              *)
(* The operator returns [error, value, decodeCalls, codecCalls]: the frame *)
(* or the exception, how often FrameDecoder.decodeFrameData was called and *)
(* how often a codec backend entry point was.  createImageFrame is one     *)
(* function in the code; the model splits it where a value is computed     *)
(* that the rest of the function uses.                                     *)
(***************************************************************************)
Fail(e, decodeCalls, codecCalls) ==
  [error |-> e, value |-> None, decodeCalls |-> decodeCalls, codecCalls |-> codecCalls]

\* "Extract dimensions", "Extract pixel parameters": the attributes as the
\* function holds them, defaults applied.
FrameAttributes(dataset) ==
  LET bitsAllocated == dataset.bitsAllocated
      bitsStored    == IF dataset.bitsStored # 0 THEN dataset.bitsStored ELSE bitsAllocated
  IN  [rows |-> dataset.rows, columns |-> dataset.columns,
       bitsAllocated |-> bitsAllocated, bitsStored |-> bitsStored,
       pixelRepresentation |-> dataset.pixelRepresentation,
       highBit |-> IF dataset.highBit # 0 THEN dataset.highBit ELSE bitsStored - 1,
       samplesPerPixel |-> IF dataset.samplesPerPixel # 0 THEN dataset.samplesPerPixel
                           ELSE 1,
       photometricInterpretation |-> dataset.photometricInterpretation,
       planarConfiguration |-> dataset.planarConfiguration]

DetermineWindow_AlwaysDerived(dataset, a, photometricInterpretation, typedPixelData, minMax, codecCalls) ==
  LET rescaleIntercept == dataset.rescaleIntercept
      rescaleSlope     == IF dataset.rescaleSlope # 0 THEN dataset.rescaleSlope ELSE 1
      maxVoi           == minMax.maxPixelValue * rescaleSlope + rescaleIntercept
      minVoi           == minMax.minPixelValue * rescaleSlope + rescaleIntercept
  IN  [error |-> Undefined,
       value |->
         [samplesPerPixel |-> a.samplesPerPixel,
          photometricInterpretation |-> photometricInterpretation,
          planarConfiguration |-> a.planarConfiguration,
          rows |-> a.rows, columns |-> a.columns,
          bitsAllocated |-> a.bitsAllocated, bitsStored |-> a.bitsStored,
          highBit |-> a.highBit,
          rescaleIntercept |-> rescaleIntercept, rescaleSlope |-> rescaleSlope,
          pixelRepresentation |-> a.pixelRepresentation,
          minPixelValue |-> minMax.minPixelValue,
          maxPixelValue |-> minMax.maxPixelValue,
          windowCenter |-> IF minMax.minPixelValue = NaN THEN NaN ELSE maxVoi + minVoi,
          windowWidth |-> IF minMax.minPixelValue = NaN THEN NaN
                          ELSE 2 * (maxVoi - minVoi),
          pixelData |-> typedPixelData],
       decodeCalls |-> 1, codecCalls |-> codecCalls]

\* "Determine window center and width" and the frame that is returned.
DetermineWindow(dataset, a, photometricInterpretation, typedPixelData, minMax, codecCalls) ==
  LET rescaleIntercept == dataset.rescaleIntercept
      rescaleSlope     == IF dataset.rescaleSlope # 0 THEN dataset.rescaleSlope ELSE 1
      wc               == getNumberValues(dataset.windowCenter, 1)
      ww               == getNumberValues(dataset.windowWidth, 1)
      explicit         == wc # None /\ ww # None
      maxVoi           == minMax.maxPixelValue * rescaleSlope + rescaleIntercept
      minVoi           == minMax.minPixelValue * rescaleSlope + rescaleIntercept
      windowWidth      == IF explicit THEN 2 * ww[1]
                          ELSE IF minMax.minPixelValue = NaN THEN NaN
                          ELSE 2 * (maxVoi - minVoi)
      windowCenter     == IF explicit THEN 2 * wc[1]
                          ELSE IF minMax.minPixelValue = NaN THEN NaN
                          ELSE maxVoi + minVoi
  IN  [error |-> Undefined,
       value |->
         [samplesPerPixel |-> a.samplesPerPixel,
          photometricInterpretation |-> photometricInterpretation,
          planarConfiguration |-> a.planarConfiguration,
          rows |-> a.rows, columns |-> a.columns,
          bitsAllocated |-> a.bitsAllocated, bitsStored |-> a.bitsStored,
          highBit |-> a.highBit,
          rescaleIntercept |-> rescaleIntercept, rescaleSlope |-> rescaleSlope,
          pixelRepresentation |-> a.pixelRepresentation,
          minPixelValue |-> minMax.minPixelValue,
          maxPixelValue |-> minMax.maxPixelValue,
          windowCenter |-> windowCenter, windowWidth |-> windowWidth,
          pixelData |-> typedPixelData],
       decodeCalls |-> 1, codecCalls |-> codecCalls]

\* "Calculate min and max pixel values", given the typed array.
CalculateMinMax(dataset, a, photometricInterpretation, typedPixelData, codecCalls) ==
  IF typedPixelData.error # Undefined THEN Fail(typedPixelData.error, 1, codecCalls)
  ELSE DetermineWindow(dataset, a, photometricInterpretation, typedPixelData.value,
                       calculateMinMaxPixelValues(typedPixelData.value), codecCalls)

\* "Photometric interpretation might change", "Make a typed array from pixel
\* data", given what decodeFrameData returned or threw.
MakeTypedArray(dataset, a, decodedPixelData, codecCalls) ==
  IF decodedPixelData.error # Undefined THEN Fail(decodedPixelData.error, 1, codecCalls)
  ELSE IF decodedPixelData.value.decodedBuffer = None
  THEN Fail("Failed to decode pixel data", 1, codecCalls)
  ELSE CalculateMinMax(dataset, a,
                       IF decodedPixelData.value.photometricInterpretation # ""
                       THEN decodedPixelData.value.photometricInterpretation
                       ELSE a.photometricInterpretation,
                       toTypedPixelData(decodedPixelData.value.decodedBuffer[1],
                                        a.pixelRepresentation, a.bitsAllocated,
                                        a.bitsStored, a.highBit),
                       codecCalls)

\* "Extract dimensions" to "Decode pixel data", given what getPixelData
\* returned or threw.
DecodePixelData(dataset, pixelData, api, outcome) ==
  LET a               == FrameAttributes(dataset)
      frameParameters ==
        [width |-> a.columns, height |-> a.rows, bitsAllocated |-> a.bitsAllocated,
         bitsStored |-> a.bitsStored, samplesPerPixel |-> a.samplesPerPixel,
         pixelRepresentation |-> a.pixelRepresentation,
         planarConfiguration |-> a.planarConfiguration,
         photometricInterpretation |-> a.photometricInterpretation,
         encodedBuffer |-> Some(pixelData.value), decodedBuffer |-> None]
  IN  IF pixelData.error # Undefined THEN Fail(pixelData.error, 0, 0)
      ELSE IF a.rows = 0 \/ a.columns = 0 THEN Fail("Rows and columns are required", 0, 0)
      ELSE IF a.bitsAllocated # 8 /\ a.bitsAllocated # 16
      THEN Fail("Invalid bits allocated value", 0, 0)
      ELSE IF ~isInitialized(api) THEN Fail("Frame decoder is not initialized", 0, 0)
      ELSE MakeTypedArray(dataset, a,
                          decodeFrameData(api, dataset.transferSyntaxUid, frameParameters,
                                          outcome),
                          IF InvokesCodec(api, dataset.transferSyntaxUid, frameParameters)
                          THEN 1 ELSE 0)

\* createImageFrame(dicomDataBuffer, options); dataset is what
\* dicomParser.parseDicom makes of dicomDataBuffer.
createImageFrame(dicomDataBuffer, options, api, outcome) ==
  LET dataset == dicomDataBuffer
  IN  IF ~dataset.parses THEN Fail("dicomParser: cannot parse", 0, 0)
      ELSE IF dataset.transferSyntaxUid = Undefined
      THEN Fail("Transfer syntax UID is missing", 0, 0)
      ELSE DecodePixelData(dataset, getPixelData(dataset, options.frameIndex), api, outcome)

(***************************************************************************)
(* Render pipelines (Pipeline.ts, kept in utils.ts)                        *)
(***************************************************************************)
PipelineCacheMax == 5

\* new GrayscalePipeline() / new ColorRgbPipeline(); id tells instances apart.
NewPipeline(class, id) ==
  [class |-> class, id |-> id, device |-> Undefined, computePipeline |-> Undefined,
   bindGroupLayout |-> Undefined]

\* GrayscalePipeline.initialize
GrayscaleInitialize(pipeline, gpuDevice) ==
  [pipeline EXCEPT !.device = gpuDevice,
                   !.bindGroupLayout = "Grayscale bind group layout",
                   !.computePipeline = "Grayscale compute pipeline"]

\* ColorRgbPipeline.initialize
ColorRgbInitialize(pipeline, gpuDevice) == pipeline

PipelineCreate_ColorForTheRest(pipelineCache, gpuDevice, imageFrame, id) ==
  LET pi             == imageFrame.photometricInterpretation
      cachedPipeline == CacheGet(pipelineCache, pi)
      looked         == CacheTouch(pipelineCache, pi)
      grayscalePipeline == GrayscaleInitialize(NewPipeline("GrayscalePipeline", id), gpuDevice)
      colorPipeline  == ColorRgbInitialize(NewPipeline("ColorRgbPipeline", id), gpuDevice)
  IN  IF pi = ""
      THEN [error |-> "Photometric interpretation is required", value |-> None,
            pipelineCache |-> pipelineCache, created |-> 0]
      ELSE IF cachedPipeline # None
      THEN [error |-> Undefined, value |-> cachedPipeline[1], pipelineCache |-> looked,
            created |-> 0]
      ELSE IF pi = "MONOCHROME1" \/ pi = "MONOCHROME2"
      THEN [error |-> Undefined, value |-> grayscalePipeline,
            pipelineCache |-> CacheSet(PipelineCacheMax, looked, pi, grayscalePipeline),
            created |-> 1]
      ELSE [error |-> Undefined, value |-> colorPipeline,
            pipelineCache |-> CacheSet(PipelineCacheMax, looked, pi, colorPipeline),
            created |-> 1]

\* Pipeline.create: [error, value, pipelineCache, created], the pipeline or
\* the exception, the pipeline cache it leaves and the instances it made.
PipelineCreate(pipelineCache, gpuDevice, imageFrame, id) ==
  LET pi             == imageFrame.photometricInterpretation
      cachedPipeline == CacheGet(pipelineCache, pi)
      looked         == CacheTouch(pipelineCache, pi)
      grayscalePipeline == GrayscaleInitialize(NewPipeline("GrayscalePipeline", id), gpuDevice)
      colorPipeline  == ColorRgbInitialize(NewPipeline("ColorRgbPipeline", id), gpuDevice)
  IN  IF pi = ""
      THEN [error |-> "Photometric interpretation is required", value |-> None,
            pipelineCache |-> pipelineCache, created |-> 0]
      ELSE IF cachedPipeline # None
      THEN [error |-> Undefined, value |-> cachedPipeline[1], pipelineCache |-> looked,
            created |-> 0]
      ELSE IF pi = "MONOCHROME1" \/ pi = "MONOCHROME2"
      THEN [error |-> Undefined, value |-> grayscalePipeline,
            pipelineCache |-> CacheSet(PipelineCacheMax, looked, pi, grayscalePipeline),
            created |-> 1]
      ELSE IF pi = "RGB"
      THEN [error |-> Undefined, value |-> colorPipeline,
            pipelineCache |-> CacheSet(PipelineCacheMax, looked, pi, colorPipeline),
            created |-> 1]
      ELSE [error |-> "Unsupported photometric interpretation", value |-> None,
            pipelineCache |-> looked, created |-> 0]

\* The GPU buffers one grayscale render creates.
BufferLabels == {"Image frame buffer input", "Pixel data buffer output",
                 "Pixel data staging buffer"}

\* What a float-to-u32 conversion of NaN may give on the GPU.
NanOutcomes == {0, 255}

\* Sample idx of the input storage buffer as the shader reads it.  The buffer
\* is zero-initialised and holds rows * columns floats after the 32-byte
\* header, padded to 16 bytes; writeBuffer puts pixelData.length floats at
\* offset 32, and the GPU drops a write that does not fit the buffer.
InputSample(imageFrame, idx) ==
  LET dataSize          == imageFrame.rows * imageFrame.columns * 4
      bufferSize        == dataSize + 32
      alignedBufferSize == ((bufferSize + 15) \div 16) * 16
      fits              == 32 + 4 * Len(imageFrame.pixelData) <= alignedBufferSize
  IN  IF fits /\ idx < Len(imageFrame.pixelData) THEN imageFrame.pixelData[idx + 1] ELSE 0

\* GrayscaleShader main for one in-range invocation: the gray level written
\* for sample p.  With C and W the frame's window centre and width, the
\* shader computes v = ((s - (C - 0.5)) / (W - 1) + 0.5) * 255 for
\* s = p * slope + intercept, clamps v to [0, 255], truncates and inverts for
\* MONOCHROME1.  The value is computed exactly (f32 rounding is not
\* modelled); nan is what the conversion gives when v is not a number.
GrayscaleShaderMain(imageFrame, p, nan) ==
  LET s      == p * imageFrame.rescaleSlope + imageFrame.rescaleIntercept
      a      == 2 * s - imageFrame.windowCenter + 1
      w      == imageFrame.windowWidth - 2
      n      == IF w < 0 THEN -(2 * a + w) ELSE 2 * a + w
      d      == IF w < 0 THEN -(2 * w) ELSE 2 * w
      c      == IF imageFrame.windowCenter = NaN \/ imageFrame.windowWidth = NaN THEN nan
                ELSE IF w = 0 THEN (IF a > 0 THEN 255 ELSE IF a < 0 THEN 0 ELSE nan)
                ELSE IF n <= 0 THEN 0
                ELSE IF n >= d THEN 255
                ELSE (255 * n) \div d
  IN  IF imageFrame.photometricInterpretation = "MONOCHROME1" THEN 255 - c ELSE c

\* The rendering result of GrayscalePipeline.render once the staging buffer
\* is mapped: byte 4 * idx + ch of rgbaPixels for every pixel idx.
GrayscaleRender(imageFrame, nan) ==
  [pixelData |->
     [b \in 1..(4 * imageFrame.rows * imageFrame.columns) |->
        IF (b - 1) % 4 = 3 THEN 255
        ELSE GrayscaleShaderMain(imageFrame, InputSample(imageFrame, (b - 1) \div 4),
                                 nan) % 256],
   width |-> imageFrame.columns, height |-> imageFrame.rows]

ColorRgbRender_AlwaysInterleaved(imageFrame) ==
  [pixelData |->
     [b \in 1..(4 * imageFrame.rows * imageFrame.columns) |->
        IF (b - 1) % 4 = 3 THEN 255
        ELSE Uint8From(imageFrame.pixelData, ((b - 1) \div 4) * 3 + ((b - 1) % 4))],
   width |-> imageFrame.columns, height |-> imageFrame.rows]

\* ColorRgbPipeline.render
ColorRgbRender(imageFrame) ==
  LET rows      == imageFrame.rows
      columns   == imageFrame.columns
      pixelData == imageFrame.pixelData
      shouldConvertToInterleaved == imageFrame.planarConfiguration = 1
  IN  [pixelData |->
         [b \in 1..(4 * rows * columns) |->
            LET i  == (b - 1) \div 4
                ch == (b - 1) % 4
            IN  IF ch = 3 THEN 255
                ELSE IF shouldConvertToInterleaved
                THEN Uint8From(pixelData, i + ch * rows * columns)
                ELSE Uint8From(pixelData, i * 3 + ch)],
       width |-> columns, height |-> rows]

\* The guard at the head of GrayscalePipeline.render.
GrayscaleInitialized(pipeline) ==
  /\ pipeline.device # Undefined
  /\ pipeline.computePipeline # Undefined
  /\ pipeline.bindGroupLayout # Undefined

\* pipeline.render(imageFrame) from its call to its return (for the
\* grayscale pipeline, with mapAsync resolved): the result or the exception.
PipelineRender(pipeline, imageFrame, nan) ==
  IF pipeline.class = "GrayscalePipeline"
  THEN IF GrayscaleInitialized(pipeline) THEN Ok(GrayscaleRender(imageFrame, nan))
       ELSE Throw("Pipeline is not initialized")
  ELSE Ok(ColorRgbRender(imageFrame))

(***************************************************************************)
(* The grayscale compute kernel as a set of invocations (shaders.ts and    *)
(* the dispatch in GrayscalePipeline.render).                              *)
(***************************************************************************)
\* @workgroup_size(16, 16)
WorkgroupSize == 16

\* Math.ceil(a / b)
Ceil(a, b) == (a + b - 1) \div b

\* The global invocation ids of dispatchWorkgroups(ceil(columns / 16),
\* ceil(rows / 16)).
Dispatched(columns, rows) ==
  (0..(Ceil(columns, WorkgroupSize) * WorkgroupSize - 1))
    \X (0..(Ceil(rows, WorkgroupSize) * WorkgroupSize - 1))

\* The condition of the early return of main.
ShaderReturns(x, y, columns, rows) == x > columns \/ y > rows

\* `let idx`
ShaderIndex(x, y, columns) == columns * y + x

\* The number of vec4<u32> elements of the output storage buffer, which is
\* created with 4 * bufferSize bytes.
RenderedElements(columns, rows) == (4 * (rows * columns * 4 + 32)) \div 16

\* What a store to element idx of the output buffer does: an index beyond
\* the buffer is either dropped or clamped to the last element by the GPU's
\* bounds handling.
StoreTargets(idx, columns, rows) ==
  IF idx < RenderedElements(columns, rows) THEN {{idx}}
  ELSE {{}, {RenderedElements(columns, rows) - 1}}

(***************************************************************************)
(* The containers render is called with.  A container is given as what the *)
(* container reader (dicom-parser) makes of it: whether it parses, the     *)
(* attributes the code reads, the pixel data element and the byte array.   *)
(***************************************************************************)
Mono2 ==
  [name |-> "mono2-8bit-2frames", parses |-> TRUE,
   transferSyntaxUid |-> ExplicitVRLittleEndian,
   rows |-> 1, columns |-> 2, bitsAllocated |-> 8, bitsStored |-> 8, highBit |-> 7,
   pixelRepresentation |-> 0, samplesPerPixel |-> 1,
   photometricInterpretation |-> "MONOCHROME2", planarConfiguration |-> 0,
   pixelDataElement |-> Some([encapsulatedPixelData |-> FALSE, dataOffset |-> 2,
                              length |-> 4]),
   byteArray |-> NewUint8Array(<<0, 0, 10, 200, 30, 40>>), encapsulatedFrames |-> <<>>,
   rescaleIntercept |-> 0, rescaleSlope |-> 0,
   windowCenter |-> None, windowWidth |-> None]

Mono1Signed16 ==
  [Mono2 EXCEPT !.name = "mono1-16bit-signed", !.transferSyntaxUid = ImplicitVRLittleEndian,
                !.bitsAllocated = 16, !.bitsStored = 16, !.highBit = 15,
                !.pixelRepresentation = 1, !.photometricInterpretation = "MONOCHROME1",
                !.byteArray = NewUint8Array(<<0, 0, 1, 0, 255, 255>>),
                !.windowCenter = <<0>>, !.windowWidth = <<8>>]

Rgb ==
  [Mono2 EXCEPT !.name = "rgb-interleaved", !.samplesPerPixel = 3,
                !.photometricInterpretation = "RGB",
                !.pixelDataElement = Some([encapsulatedPixelData |-> FALSE,
                                           dataOffset |-> 2, length |-> 6]),
                !.byteArray = NewUint8Array(<<0, 0, 1, 2, 3, 4, 5, 6>>)]

Ybr == [Rgb EXCEPT !.name = "ybr-full", !.photometricInterpretation = "YBR_FULL"]

\* One frame of two bytes followed by one byte that is not pixel data.
Padded ==
  [Mono2 EXCEPT !.name = "mono2-8bit-1frame-padded",
                !.pixelDataElement = Some([encapsulatedPixelData |-> FALSE,
                                           dataOffset |-> 2, length |-> 2]),
                !.byteArray = NewUint8Array(<<0, 0, 50, 60, 7>>)]

Rle ==
  [Mono2 EXCEPT !.name = "rle", !.transferSyntaxUid = RleLossless,
                !.pixelDataElement = Some([encapsulatedPixelData |-> TRUE,
                                           dataOffset |-> 2, length |-> 3]),
                !.byteArray = NewUint8Array(<<0, 0, 9, 8, 7>>),
                !.encapsulatedFrames = <<<<9, 8, 7>>>>]

NoTransferSyntax == [Mono2 EXCEPT !.name = "no-transfer-syntax",
                                  !.transferSyntaxUid = Undefined]

UnknownTransferSyntax == [Mono2 EXCEPT !.name = "unknown-transfer-syntax",
                                       !.transferSyntaxUid = "1.2.3.4"]

NoRows == [Mono2 EXCEPT !.name = "no-rows", !.rows = 0]

NoColumnsJpeg == [Rle EXCEPT !.name = "jpeg-no-columns",
                             !.transferSyntaxUid = JpegBaselineProcess1, !.columns = 0]

Bits12 == [Mono2 EXCEPT !.name = "12-bits-allocated", !.bitsAllocated = 12,
                        !.bitsStored = 12, !.highBit = 11]

Bits12Jpeg == [Rle EXCEPT !.name = "jpeg-12-bits-allocated",
                          !.transferSyntaxUid = JpegBaselineProcess1,
                          !.bitsAllocated = 12, !.bitsStored = 12, !.highBit = 11]

NoPixelData == [Mono2 EXCEPT !.name = "no-pixel-data", !.pixelDataElement = None]

Unparseable == [Mono2 EXCEPT !.name = "not-dicom", !.parses = FALSE]

FrameContainers == {Mono2, Mono1Signed16, Rgb, Ybr, Padded, Rle}

BrokenContainers ==
  {NoTransferSyntax, UnknownTransferSyntax, NoRows, NoColumnsJpeg, Bits12, Bits12Jpeg,
   NoPixelData, Unparseable}

Request(gpuDevice, dicomDataBuffer, cacheKey, frameIndex) ==
  [gpuDevice |-> gpuDevice, dicomDataBuffer |-> dicomDataBuffer,
   options |-> [cacheKey |-> cacheKey, frameIndex |-> frameIndex]]

\* The render calls the callers make.
Requests ==
  {Request("gpu", Some(c), "a", 0) : c \in FrameContainers \cup BrokenContainers}
    \cup {Request("gpu", Some(c), "a", 1) : c \in {Mono2, Padded}}
    \cup {Request("gpu", Some(c), "b", 0) : c \in {Mono2, Rgb}}
    \cup {Request("gpu", Some(Mono2), k, 0) : k \in {Undefined, ""}}
    \cup {Request(Undefined, Some(Mono2), "a", 0), Request("gpu", None, "a", 0)}

(***************************************************************************)
(* State                                                                   *)
(***************************************************************************)
MaxCapacity == 3

NumKeys == 4

MaxCalls == 2

ImageFrameCacheMax == 3

VARIABLES
  lruImpl,          \* a cache instance: which class it is
  lruMax,           \* its this.max
  lruMap,           \* its this.cache
  lruRecency,       \* observer: the stored keys, least recently touched first
  lruLast,          \* observer: the last call, what it returned and what it evicted
  lruProbe,         \* observer: the last hitting get and the new keys inserted since
  frameDecoderApi,  \* FrameDecoder._frameDecoderApi
  initializeState,  \* the latest initialize() call: never made, pending, failed, completed
  imageFrameCache,  \* the Map of imageFrameCache (index.ts)
  pipelineCache,    \* the Map of Pipeline.pipelineCache
  pipelineCount,    \* how many pipeline instances were constructed
  gpuBuffers,       \* the GPU buffers that were created and not destroyed
  calls,            \* the render calls made so far, in the order they were made
  extractInput,     \* an extractor call: its dataset and frame index
  extractOutput,    \* what that call returned or threw
  decodeInput,      \* a decodeFrameData call: the decoder state and its arguments
  decodeOutput,     \* what that call returned or threw, and its backend calls
  pipelineLast,     \* the last call made on Pipeline directly and what it gave
  assembleInput,    \* a createImageFrame call: its dataset and options
  assembleOutput,   \* what that call returned or threw
  colorImage,       \* a logical color image: for every pixel its three channels
  colorOutput,      \* what ColorRgbPipeline.render gave for each arrangement of it
  kernelFrame,      \* the columns and rows of a frame the kernel is dispatched on
  renderedWriters,  \* for every output element, the invocations that stored to it
  fragmentInput,    \* a getEncapsulatedImageFrame call: the element and the frame index
  fragmentOutput,   \* the reader that call chose and what it returned or threw
  typedInput,       \* a toTypedPixelData call: its arguments
  typedOutput       \* what that call returned or threw

lruVars == <<lruImpl, lruMax, lruMap, lruRecency, lruLast, lruProbe>>

renderVars ==
  <<frameDecoderApi, initializeState, imageFrameCache, pipelineCache, pipelineCount,
    gpuBuffers, calls>>

extractVars == <<extractInput, extractOutput>>

decodeVars == <<decodeInput, decodeOutput>>

assembleVars == <<assembleInput, assembleOutput>>

colorVars == <<colorImage, colorOutput>>

kernelVars == <<kernelFrame, renderedWriters>>

fragmentVars == <<fragmentInput, fragmentOutput>>

typedVars == <<typedInput, typedOutput>>

\* The variables of the functions that are called on their own.
unitVars ==
  <<extractVars, decodeVars, pipelineLast, assembleVars, colorVars, kernelVars, fragmentVars,
    typedVars>>

vars == <<lruVars, renderVars, unitVars>>

(***************************************************************************)
(* A cache instance driven by arbitrary get/set calls.                     *)
(***************************************************************************)
LruKeys == 1..NumKeys

LruValues == {"v1", "v2"}

LruImpls == {"Cache", "PipelineCache"}

NoProbe == [key |-> 0, inserts |-> 0, full |-> FALSE, older |-> {}]

NoOp == [op |-> "none", key |-> 0, hit |-> FALSE, returned |-> None, evicted |-> {}]

\* new Cache(max) / new PipelineCache(max)
LruInit ==
  /\ lruImpl \in LruImpls
  /\ lruMax \in 1..MaxCapacity
  /\ lruMap = <<>>
  /\ lruRecency = <<>>
  /\ lruLast = NoOp
  /\ lruProbe = NoProbe

\* The cache instance when no call is made on it.
LruIdle ==
  /\ lruImpl = "Cache"
  /\ lruMax = 1
  /\ lruMap = <<>>
  /\ lruRecency = <<>>
  /\ lruLast = NoOp
  /\ lruProbe = NoProbe

\* The observer's record of a touch of k: k becomes the most recently touched
\* key; keys that are no longer stored are forgotten.
Promote(recency, k, present) ==
  SelectSeq(Append(SelectSeq(recency, LAMBDA x : x # k), k), LAMBDA x : x \in present)

\* cache.get(k)
LruGet(k) ==
  LET item == IF lruImpl = "Cache" THEN CacheGet(lruMap, k)
              ELSE PipelineCacheGet(lruMap, k)
      hit  == MapHas(lruMap, k)
  IN  /\ lruMap' = IF lruImpl = "Cache" THEN CacheTouch(lruMap, k)
                   ELSE PipelineCacheTouch(lruMap, k)
      /\ lruRecency' = IF hit THEN Promote(lruRecency, k, MapKeys(lruMap')) ELSE lruRecency
      /\ lruLast' = [op |-> "get", key |-> k, hit |-> hit, returned |-> item,
                     evicted |-> MapKeys(lruMap) \ MapKeys(lruMap')]
      /\ lruProbe' = IF hit
                     THEN [key |-> k, inserts |-> 0, full |-> Len(lruMap) = lruMax,
                           older |-> MapKeys(lruMap) \ {k}]
                     ELSE NoProbe
      /\ UNCHANGED <<lruImpl, lruMax, renderVars, unitVars>>

\* cache.set(k, v)
LruSet(k, v) ==
  LET hit   == MapHas(lruMap, k)
      \* k is one more new key since the last hitting get: not stored now, not
      \* one of the keys that were stored at the time of the get
      fresh == /\ lruProbe.key # 0
               /\ lruProbe.inserts < lruMax
               /\ ~hit
               /\ k \notin lruProbe.older
  IN  /\ lruMap' = IF lruImpl = "Cache" THEN CacheSet(lruMax, lruMap, k, v)
                   ELSE PipelineCacheSet(lruMax, lruMap, k, v)
      /\ lruRecency' = Promote(lruRecency, k, MapKeys(lruMap'))
      /\ lruLast' = [op |-> "set", key |-> k, hit |-> hit, returned |-> None,
                     evicted |-> MapKeys(lruMap) \ MapKeys(lruMap')]
      /\ lruProbe' = IF fresh THEN [lruProbe EXCEPT !.inserts = @ + 1] ELSE NoProbe
      /\ UNCHANGED <<lruImpl, lruMax, renderVars, unitVars>>

CacheNext ==
  \/ \E k \in LruKeys : LruGet(k)
  \/ \E k \in LruKeys, v \in LruValues : LruSet(k, v)

\* The observer's least recently touched key among the stored ones.
LeastRecent(recency, present) ==
  recency[CHOOSE i \in 1..Len(recency) :
            /\ recency[i] \in present
            /\ \A j \in 1..(i - 1) : recency[j] \notin present]

(***************************************************************************)
(* The render entry point (index.ts: initialize, render) and the           *)
(* continuations of the calls in flight.  A call is a record of what it    *)
(* was given, where it stands (pc) and what it did:                        *)
(*   pc "mapAsync"     GrayscalePipeline.render awaits stagingBuffer.mapAsync *)
(*   pc "awaitRender"  render awaits the promise of pipeline.render        *)
(*   pc "fulfilled"    render returned result                              *)
(*   pc "rejected"     render threw error                                  *)
(***************************************************************************)
InFlight == {"mapAsync", "awaitRender"}

\* `options && options.cacheKey`
UsesCacheKey(options) == options.cacheKey # Undefined /\ options.cacheKey # ""

LookupFrame_Miss(cache, options) == None

\* render: the frame-cache lookup
LookupFrame(cache, options) ==
  IF UsesCacheKey(options) THEN CacheGet(cache, options.cacheKey) ELSE None

StoreFrame_Never(cache, options, imageFrameCreated, imageFrame) == cache

\* render: the frame-cache store
StoreFrame(cache, options, imageFrameCreated, imageFrame) ==
  IF UsesCacheKey(options) /\ imageFrameCreated
  THEN CacheSet(ImageFrameCacheMax, cache, options.cacheKey, imageFrame)
  ELSE cache

\* A call as render finds it on entry.
NewCall(request) ==
  [gpuDevice |-> request.gpuDevice, dicomDataBuffer |-> request.dicomDataBuffer,
   options |-> request.options,
   apiAtStart |-> frameDecoderApi, initializeAtStart |-> initializeState,
   overlapped |-> {k \in 1..Len(calls) : calls[k].pc \in InFlight},
   pc |-> "rejected", error |-> Undefined,
   cacheHit |-> FALSE, imageFrameCreated |-> FALSE, imageFrame |-> None,
   decodeCalls |-> 0, codecCalls |-> 0, codecException |-> FALSE, stored |-> FALSE,
   pipeline |-> None, buffersCreated |-> FALSE, result |-> None]

\* What render leaves when it suspends or throws: the call, the two caches,
\* the number of pipeline instances.
Leaves(call, frames, pipelines, count) ==
  [call |-> call, imageFrameCache |-> frames, pipelineCache |-> pipelines,
   pipelineCount |-> count]

\* render from `await pipeline.render(imageFrame, options)` on, given what
\* Pipeline.create returned or threw: pipeline.render runs up to its first
\* await (GrayscalePipeline) or to its end (ColorRgbPipeline).
RenderPipeline(call, imageFrame, frames, created, count) ==
  IF created.error # Undefined
  THEN Leaves([call EXCEPT !.error = created.error], frames, created.pipelineCache, count)
  ELSE IF created.value.class = "GrayscalePipeline" /\ ~GrayscaleInitialized(created.value)
  THEN Leaves([call EXCEPT !.pipeline = Some(created.value),
                           !.error = "Pipeline is not initialized"],
              frames, created.pipelineCache, count + created.created)
  ELSE IF created.value.class = "GrayscalePipeline"
  THEN Leaves([call EXCEPT !.pipeline = Some(created.value), !.pc = "mapAsync",
                           !.buffersCreated = TRUE],
              frames, created.pipelineCache, count + created.created)
  ELSE Leaves([call EXCEPT !.pipeline = Some(created.value), !.pc = "awaitRender",
                           !.result = Some(ColorRgbRender(imageFrame))],
              frames, created.pipelineCache, count + created.created)

\* render from the frame-cache store on, given the frame.
RenderFrame(call, gpuDevice, imageFrame, imageFrameCreated, looked, afterStore, pipelines, count) ==
  RenderPipeline([call EXCEPT !.imageFrameCreated = imageFrameCreated,
                              !.imageFrame = Some(imageFrame),
                              !.stored = afterStore # looked],
                 imageFrame, afterStore,
                 PipelineCreate(pipelines, gpuDevice, imageFrame, count + 1), count)

\* render from `if (!imageFrame)` on, given what the lookup returned and, for
\* a miss, what createImageFrame returned or threw.
RenderAssembled(call, gpuDevice, options, cached, assembled, looked, pipelines, count) ==
  IF Truthy(cached)
  THEN RenderFrame([call EXCEPT !.cacheHit = TRUE], gpuDevice, cached[1], FALSE,
                   looked, StoreFrame(looked, options, FALSE, cached[1]), pipelines, count)
  ELSE IF assembled.error # Undefined
  THEN Leaves([call EXCEPT !.error = assembled.error,
                           !.decodeCalls = assembled.decodeCalls,
                           !.codecCalls = assembled.codecCalls],
              looked, pipelines, count)
  ELSE RenderFrame([call EXCEPT !.decodeCalls = assembled.decodeCalls,
                                !.codecCalls = assembled.codecCalls],
                   gpuDevice, assembled.value, TRUE, looked,
                   StoreFrame(looked, options, TRUE, assembled.value), pipelines, count)

\* render up to its first suspension.  An async function runs without
\* interruption up to its first await, and pipeline.render is entered before
\* render awaits it, so this is one step.  createImageFrame is only called
\* on a miss.
RenderToAwait(request, outcome) ==
  LET gpuDevice       == request.gpuDevice
      dicomDataBuffer == request.dicomDataBuffer
      options         == request.options
  IN  IF gpuDevice = Undefined
      THEN Leaves([NewCall(request) EXCEPT !.error = "GPU device is required"],
                  imageFrameCache, pipelineCache, pipelineCount)
      ELSE IF dicomDataBuffer = None
      THEN Leaves([NewCall(request) EXCEPT !.error = "DICOM data buffer is required"],
                  imageFrameCache, pipelineCache, pipelineCount)
      ELSE RenderAssembled(NewCall(request), gpuDevice, options,
                           LookupFrame(imageFrameCache, options),
                           IF Truthy(LookupFrame(imageFrameCache, options))
                           THEN Fail("not called", 0, 0)
                           ELSE createImageFrame(dicomDataBuffer[1], options,
                                                 frameDecoderApi, outcome),
                           IF UsesCacheKey(options)
                           THEN CacheTouch(imageFrameCache, options.cacheKey)
                           ELSE imageFrameCache,
                           pipelineCache, pipelineCount)

RenderInit ==
  /\ frameDecoderApi = Undefined
  /\ initializeState = "never"
  /\ imageFrameCache = <<>>
  /\ pipelineCache = <<>>
  /\ pipelineCount = 0
  /\ gpuBuffers = {}
  /\ calls = <<>>

\* initialize() is called and suspends on the fetch of the codec module; a
\* caller calls it when it was never called or after it failed.
Initialize ==
  /\ initializeState \in {"never", "failed"}
  /\ initializeState' = "pending"
  /\ UNCHANGED <<frameDecoderApi, imageFrameCache, pipelineCache, pipelineCount,
                 gpuBuffers, calls, lruVars, unitVars>>

\* The module was fetched and instantiated: _frameDecoderApi is set.
InitializeCompleted ==
  /\ initializeState = "pending"
  /\ frameDecoderApi' = "FrameDecoderApi"
  /\ initializeState' = "completed"
  /\ UNCHANGED <<imageFrameCache, pipelineCache, pipelineCount, gpuBuffers, calls,
                 lruVars, unitVars>>

\* fetch or WebAssembly.instantiateStreaming rejected.
InitializeFailed ==
  /\ initializeState = "pending"
  /\ initializeState' = "failed"
  /\ UNCHANGED <<frameDecoderApi, imageFrameCache, pipelineCache, pipelineCount,
                 gpuBuffers, calls, lruVars, unitVars>>

\* render(gpuDevice, dicomDataBuffer, options) up to its first suspension.
Render(request, outcome) ==
  /\ Len(calls) < MaxCalls
  /\ LET left == RenderToAwait(request, outcome)
         n    == Len(calls) + 1
     IN  /\ calls' = Append(calls, [left.call EXCEPT !.codecException =
                                       left.call.codecCalls > 0 /\ outcome = "exception"])
         /\ imageFrameCache' = left.imageFrameCache
         /\ pipelineCache' = left.pipelineCache
         /\ pipelineCount' = left.pipelineCount
         /\ gpuBuffers' = IF left.call.buffersCreated
                          THEN gpuBuffers \cup {[call |-> n, label |-> l] : l \in BufferLabels}
                          ELSE gpuBuffers
  /\ UNCHANGED <<frameDecoderApi, initializeState, lruVars, unitVars>>

MapAsyncResolved_LastSubmitted(i, nan) ==
  /\ calls[i].pc = "mapAsync"
  /\ calls' = [calls EXCEPT ![i].pc = "awaitRender",
                            ![i].result =
                               LET waiting == {k \in 1..Len(calls) : calls[k].pc = "mapAsync"}
                                   last == CHOOSE k \in waiting : \A w \in waiting : w <= k
                               IN  Some(GrayscaleRender(calls[last].imageFrame[1], nan))]
  /\ gpuBuffers' = {b \in gpuBuffers : b.call # i}
  /\ UNCHANGED <<frameDecoderApi, initializeState, imageFrameCache, pipelineCache,
                 pipelineCount, lruVars, unitVars>>

\* stagingBuffer.mapAsync resolved: GrayscalePipeline.render reads the
\* result, destroys the three buffers and returns.
MapAsyncResolved(i, nan) ==
  /\ calls[i].pc = "mapAsync"
  /\ calls' = [calls EXCEPT ![i].pc = "awaitRender",
                            ![i].result = Some(GrayscaleRender(calls[i].imageFrame[1], nan))]
  /\ gpuBuffers' = {b \in gpuBuffers : b.call # i}
  /\ UNCHANGED <<frameDecoderApi, initializeState, imageFrameCache, pipelineCache,
                 pipelineCount, lruVars, unitVars>>

\* stagingBuffer.mapAsync rejected: the exception leaves
\* GrayscalePipeline.render and render.
MapAsyncRejected(i) ==
  /\ calls[i].pc = "mapAsync"
  /\ calls' = [calls EXCEPT ![i].pc = "rejected", ![i].error = "mapAsync rejected"]
  /\ UNCHANGED <<frameDecoderApi, initializeState, imageFrameCache, pipelineCache,
                 pipelineCount, gpuBuffers, lruVars, unitVars>>

\* The promise of pipeline.render is fulfilled: render returns its value.
RenderReturn(i) ==
  /\ calls[i].pc = "awaitRender"
  /\ calls' = [calls EXCEPT ![i].pc = "fulfilled"]
  /\ UNCHANGED <<frameDecoderApi, initializeState, imageFrameCache, pipelineCache,
                 pipelineCount, gpuBuffers, lruVars, unitVars>>

(***************************************************************************)
(* The sample extractor called on its own, on natively stored pixel data.  *)
(***************************************************************************)
MaxDim == 2

MaxFrames == 2

MaxPad == 1

\* Bytes that tell where in the buffer they are.
PositionBytes(n) == [i \in 1..n |-> i % 256]

\* A dataset of `frames` frames whose bytes lie `header` bytes into the
\* caller's array, with `trailing` bytes after them; the array is a view that
\* starts byteOffset bytes into its buffer.
NativeDataset(rows, columns, samplesPerPixel, bitsAllocated, frames, header, trailing, byteOffset) ==
  LET pixelBytes == frames * rows * columns * samplesPerPixel * ((bitsAllocated + 7) \div 8)
      length     == header + pixelBytes + trailing
  IN  [Mono2 EXCEPT
         !.name = "native", !.rows = rows, !.columns = columns,
         !.samplesPerPixel = samplesPerPixel, !.bitsAllocated = bitsAllocated,
         !.bitsStored = bitsAllocated, !.highBit = bitsAllocated - 1,
         !.pixelDataElement = Some([encapsulatedPixelData |-> FALSE, dataOffset |-> header,
                                    length |-> pixelBytes]),
         !.byteArray = [buffer |-> PositionBytes(byteOffset + length),
                        byteOffset |-> byteOffset, length |-> length]]

ExtractInputs ==
  {[dataset |-> NativeDataset(r, c, s, b, n, h, t, o), frameIndex |-> f] :
     r \in 0..MaxDim, c \in 1..MaxDim, s \in {1, 3}, b \in {8, 12, 16},
     n \in 1..MaxFrames, h \in 0..MaxPad, t \in 0..MaxPad, o \in 0..MaxPad,
     f \in 0..(MaxFrames + 1)}

NoExtract == [done |-> FALSE, error |-> Undefined, value |-> <<>>]

ExtractIdle ==
  /\ extractInput = [dataset |-> Mono2, frameIndex |-> 0]
  /\ extractOutput = NoExtract

\* getUncompressedImageFrame(dataset, frameIndex)
Extract ==
  /\ ~extractOutput.done
  /\ LET r == getUncompressedImageFrame(extractInput.dataset, extractInput.frameIndex)
     IN  extractOutput' = [done |-> TRUE, error |-> r.error, value |-> r.value]
  /\ UNCHANGED <<extractInput, lruVars, renderVars, decodeVars, pipelineLast, assembleVars,
                 colorVars, kernelVars,
                 fragmentVars, typedVars>>

(***************************************************************************)
(* FrameDecoder.decodeFrameData called on its own.                         *)
(***************************************************************************)
\* Transfer syntaxes the dispatch table does not hold: MPEG2 Main Profile, a
\* private UID, an empty string.
UnknownSyntaxes == {"1.2.840.10008.1.2.4.100", "1.2.3.4", ""}

\* The FrameDecoderContext of a frame of one row of two pixels.
DecodeParameters(bitsAllocated, photometricInterpretation, encodedBuffer) ==
  [width |-> 2, height |-> 1, bitsAllocated |-> bitsAllocated,
   bitsStored |-> bitsAllocated,
   samplesPerPixel |-> IF photometricInterpretation = "MONOCHROME2" THEN 1 ELSE 3,
   pixelRepresentation |-> 0, planarConfiguration |-> 0,
   photometricInterpretation |-> photometricInterpretation,
   encodedBuffer |-> encodedBuffer, decodedBuffer |-> None]

DecodeInputs ==
  {[api |-> api, transferSyntaxUid |-> uid, outcome |-> outcome,
    frameParameters |-> DecodeParameters(b, pi, e)] :
     api \in {Undefined, "FrameDecoderApi"},
     uid \in SupportedSyntaxes \cup UnknownSyntaxes,
     outcome \in CodecOutcomes,
     b \in {8, 12, 16}, pi \in {"MONOCHROME2", "YBR_FULL"},
     e \in {None, Some(<<1, 2>>), Some(<<1, 2, 3>>), Some(<<1, 2, 3, 4>>)}}

NoDecode ==
  [done |-> FALSE, error |-> Undefined, value |-> None, calls |-> <<>>,
   encodedBuffer |-> None]

DecodeIdle ==
  /\ decodeInput = [api |-> Undefined, transferSyntaxUid |-> ExplicitVRLittleEndian,
                    outcome |-> "decoded",
                    frameParameters |-> DecodeParameters(8, "MONOCHROME2", None)]
  /\ decodeOutput = NoDecode

\* FrameDecoder.decodeFrameData(transferSyntaxUid, frameParameters)
Decode ==
  /\ ~decodeOutput.done
  /\ LET r == decodeFrameData(decodeInput.api, decodeInput.transferSyntaxUid,
                              decodeInput.frameParameters, decodeInput.outcome)
     IN  decodeOutput' =
           [done |-> TRUE, error |-> r.error,
            value |-> IF r.error = Undefined THEN Some(r.value) ELSE None,
            calls |-> BackendCalls(decodeInput.api, decodeInput.transferSyntaxUid,
                                   decodeInput.frameParameters, decodeInput.outcome),
            encodedBuffer |-> EncodedBufferAfter(decodeInput.transferSyntaxUid,
                                                 decodeInput.frameParameters)]
  /\ UNCHANGED <<decodeInput, lruVars, renderVars, extractVars, pipelineLast, assembleVars,
                 colorVars, kernelVars,
                 fragmentVars, typedVars>>

(***************************************************************************)
(* Pipeline called on its own: Pipeline.create, and render on an instance  *)
(* as its constructor leaves it or as initialize leaves it.                *)
(***************************************************************************)
GpuDevices == {"gpu", "gpu2"}

PhotometricInterpretations ==
  {"", "MONOCHROME1", "MONOCHROME2", "RGB", "YBR_FULL", "PALETTE COLOR"}

PipelineClasses == {"GrayscalePipeline", "ColorRgbPipeline"}

\* An ImageFrame of one row of two pixels.
FrameOf(photometricInterpretation) ==
  LET gray == photometricInterpretation \in {"MONOCHROME1", "MONOCHROME2"}
  IN  [samplesPerPixel |-> IF gray THEN 1 ELSE 3,
       photometricInterpretation |-> photometricInterpretation,
       planarConfiguration |-> 0, rows |-> 1, columns |-> 2,
       bitsAllocated |-> 8, bitsStored |-> 8, highBit |-> 7,
       rescaleIntercept |-> 0, rescaleSlope |-> 1, pixelRepresentation |-> 0,
       minPixelValue |-> 1, maxPixelValue |-> 6, windowCenter |-> 7, windowWidth |-> 10,
       pixelData |-> IF gray THEN <<1, 6>> ELSE <<1, 2, 3, 4, 5, 6>>]

NoPipelineCall ==
  [op |-> "none", photometricInterpretation |-> "", class |-> "", initialized |-> FALSE,
   error |-> Undefined, pipeline |-> None, result |-> None, before |-> <<>>,
   created |-> 0]

PipelineIdle == pipelineLast = NoPipelineCall

\* Pipeline.create(gpuDevice, imageFrame)
Create(gpuDevice, photometricInterpretation) ==
  /\ LET c == PipelineCreate(pipelineCache, gpuDevice, FrameOf(photometricInterpretation),
                             pipelineCount + 1)
     IN  /\ pipelineCache' = c.pipelineCache
         /\ pipelineCount' = pipelineCount + c.created
         /\ pipelineLast' =
              [NoPipelineCall EXCEPT
                 !.op = "create", !.photometricInterpretation = photometricInterpretation,
                 !.error = c.error,
                 !.pipeline = IF c.error = Undefined THEN Some(c.value) ELSE None,
                 !.class = IF c.error = Undefined THEN c.value.class ELSE "",
                 !.initialized = c.error = Undefined,
                 !.before = pipelineCache, !.created = c.created]
  /\ UNCHANGED <<frameDecoderApi, initializeState, imageFrameCache, gpuBuffers, calls,
                 lruVars, extractVars, decodeVars, assembleVars, colorVars, kernelVars,
                 fragmentVars, typedVars>>

\* new GrayscalePipeline() or new ColorRgbPipeline(), initialize(gpuDevice)
\* or not, then render(imageFrame).
RenderInstance(class, initialized, nan) ==
  /\ LET constructed == NewPipeline(class, 0)
         pipeline    == IF ~initialized THEN constructed
                        ELSE IF class = "GrayscalePipeline"
                        THEN GrayscaleInitialize(constructed, "gpu")
                        ELSE ColorRgbInitialize(constructed, "gpu")
         frame       == FrameOf(IF class = "GrayscalePipeline" THEN "MONOCHROME2" ELSE "RGB")
         r           == PipelineRender(pipeline, frame, nan)
     IN  pipelineLast' =
           [NoPipelineCall EXCEPT
              !.op = "render", !.photometricInterpretation = frame.photometricInterpretation,
              !.class = class, !.initialized = initialized, !.error = r.error,
              !.pipeline = Some(pipeline),
              !.result = IF r.error = Undefined THEN Some(r.value) ELSE None,
              !.before = pipelineCache]
  /\ UNCHANGED <<renderVars, lruVars, extractVars, decodeVars, assembleVars, colorVars,
                 kernelVars,
                 fragmentVars, typedVars>>

(***************************************************************************)
(* createImageFrame called on its own, on containers with natively stored  *)
(* pixel data of one frame of one row.  Rescale slope and intercept and    *)
(* the window values are integers here.                                    *)
(***************************************************************************)
MaxColumns == 2

\* bitsAllocated, bitsStored, highBit as the container gives them (0: absent)
BitsTriples ==
  {<<8, 8, 7>>, <<8, 0, 0>>, <<8, 7, 6>>, <<16, 16, 15>>, <<16, 12, 11>>, <<16, 0, 0>>}

\* The bytes of a frame of n bytes: all alike, rising, high.
SampleBytes(n) ==
  {[i \in 1..n |-> 5], [i \in 1..n |-> 10 * i], [i \in 1..n |-> 256 - i]}

\* windowCenter and windowWidth as the container gives them: neither, both,
\* both with two values, one of the two, a width of 0.
WindowPairs ==
  {<<None, None>>, <<<<40>>, <<80>>>>, <<<<40, 50>>, <<80, 90>>>>, <<<<40>>, None>>,
   <<None, <<80>>>>, <<<<40>>, <<0>>>>}

AssembleDataset(columns, bits, pixelRepresentation, bytes, slope, intercept, window, uid) ==
  [NativeDataset(1, columns, 1, bits[1], 1, 0, 0, 0) EXCEPT
     !.name = "assembled", !.transferSyntaxUid = uid,
     !.bitsStored = bits[2], !.highBit = bits[3],
     !.pixelRepresentation = pixelRepresentation,
     !.byteArray = NewUint8Array(bytes),
     !.rescaleSlope = slope, !.rescaleIntercept = intercept,
     !.windowCenter = window[1], !.windowWidth = window[2]]

AssembleInputs ==
  UNION {{[dataset |-> AssembleDataset(c, bits, pr, bytes, slope, intercept, window, uid),
           options |-> [frameIndex |-> 0, cacheKey |-> Undefined]] :
            bytes \in SampleBytes(c * (bits[1] \div 8)),
            pr \in {0, 1}, slope \in {0, 2}, intercept \in {0, -3},
            window \in WindowPairs,
            uid \in {ExplicitVRLittleEndian, ExplicitVRBigEndian}} :
         c \in 1..MaxColumns, bits \in BitsTriples}

NoAssemble == [done |-> FALSE, error |-> Undefined, value |-> None]

AssembleIdle ==
  /\ assembleInput = [dataset |-> Mono2, options |-> [frameIndex |-> 0, cacheKey |-> Undefined]]
  /\ assembleOutput = NoAssemble

\* createImageFrame(dicomDataBuffer, options) with the frame decoder
\* initialized.
Assemble ==
  /\ ~assembleOutput.done
  /\ LET r == createImageFrame(assembleInput.dataset, assembleInput.options,
                               "FrameDecoderApi", "decoded")
     IN  assembleOutput' =
           [done |-> TRUE, error |-> r.error,
            value |-> IF r.error = Undefined THEN Some(r.value) ELSE None]
  /\ UNCHANGED <<assembleInput, lruVars, renderVars, extractVars, decodeVars, pipelineLast,
                 colorVars, kernelVars,
                 fragmentVars, typedVars>>

(***************************************************************************)
(* ColorRgbPipeline.render called on the two arrangements of one logical   *)
(* color image.                                                            *)
(***************************************************************************)
MaxPixels == 4

\* The colors a pixel takes: its red, green and blue samples.
PixelColors == {<<10, 20, 30>>, <<200, 100, 50>>, <<7, 7, 7>>}

\* rows and columns of the images of at most MaxPixels pixels
ColorShapes ==
  {shape \in (1..MaxPixels) \X (1..MaxPixels) : shape[1] * shape[2] <= MaxPixels}

ColorImages ==
  UNION {{[rows |-> shape[1], columns |-> shape[2], pixels |-> pixels] :
            pixels \in [1..(shape[1] * shape[2]) -> PixelColors]} :
         shape \in ColorShapes}

\* The samples of an image, color-by-pixel (planarConfiguration 0): channel
\* c of pixel i at i * 3 + c.
Interleaved(image) ==
  [p \in 1..(3 * Len(image.pixels)) |-> image.pixels[((p - 1) \div 3) + 1][((p - 1) % 3) + 1]]

\* The samples of an image, color-by-plane (planarConfiguration 1): channel
\* c of pixel i at c * rows * columns + i.
Planar(image) ==
  [p \in 1..(3 * Len(image.pixels)) |->
     image.pixels[((p - 1) % Len(image.pixels)) + 1][((p - 1) \div Len(image.pixels)) + 1]]

\* The ImageFrame of an image in the arrangement planarConfiguration names.
ColorFrame(image, planarConfiguration) ==
  [FrameOf("RGB") EXCEPT
     !.rows = image.rows, !.columns = image.columns,
     !.planarConfiguration = planarConfiguration,
     !.pixelData = IF planarConfiguration = 1 THEN Planar(image) ELSE Interleaved(image)]

NoColor == [interleaved |-> None, planar |-> None]

ColorIdle ==
  /\ colorImage = [rows |-> 1, columns |-> 1, pixels |-> <<<<1, 1, 1>>>>]
  /\ colorOutput = NoColor

\* new ColorRgbPipeline().render(imageFrame) on one of the two arrangements
ColorRender(planarConfiguration) ==
  /\ IF planarConfiguration = 1 THEN colorOutput.planar = None
     ELSE colorOutput.interleaved = None
  /\ LET r == PipelineRender(ColorRgbInitialize(NewPipeline("ColorRgbPipeline", 0), "gpu"),
                             ColorFrame(colorImage, planarConfiguration), 0)
     IN  colorOutput' = IF planarConfiguration = 1
                        THEN [colorOutput EXCEPT !.planar = Some(r.value)]
                        ELSE [colorOutput EXCEPT !.interleaved = Some(r.value)]
  /\ UNCHANGED <<colorImage, lruVars, renderVars, extractVars, decodeVars, pipelineLast,
                 assembleVars, kernelVars,
                 fragmentVars, typedVars>>

(***************************************************************************)
(* The compute pass of GrayscalePipeline.render: the invocations of the    *)
(* dispatch run in any order.                                              *)
(***************************************************************************)
MaxKernelDim == 2

KernelFrames == {[columns |-> c, rows |-> r] : c \in 1..MaxKernelDim, r \in 1..MaxKernelDim}

NoWriters(frame) == [idx \in 0..(RenderedElements(frame.columns, frame.rows) - 1) |-> {}]

KernelIdle ==
  /\ kernelFrame = [columns |-> 1, rows |-> 1]
  /\ renderedWriters = NoWriters(kernelFrame)

\* main(global_id) for global_id = (x, y, 0)
Invocation(x, y) ==
  /\ <<x, y>> \in Dispatched(kernelFrame.columns, kernelFrame.rows)
  /\ IF ShaderReturns(x, y, kernelFrame.columns, kernelFrame.rows)
     THEN UNCHANGED renderedWriters
     ELSE \E stored \in StoreTargets(ShaderIndex(x, y, kernelFrame.columns),
                                     kernelFrame.columns, kernelFrame.rows) :
            renderedWriters' =
              [idx \in DOMAIN renderedWriters |->
                 IF idx \in stored THEN renderedWriters[idx] \cup {<<x, y>>}
                 ELSE renderedWriters[idx]]
  /\ UNCHANGED <<kernelFrame, lruVars, renderVars, extractVars, decodeVars, pipelineLast,
                 assembleVars, colorVars,
                 fragmentVars, typedVars>>

(***************************************************************************)
(* getEncapsulatedImageFrame called on its own, with the three readers of  *)
(* dicom-parser spelled out.  A fragment is the bytes of one item of the   *)
(* encapsulated pixel data; its offset is counted from the first fragment, *)
(* every item having a header of 8 bytes.                                  *)
(***************************************************************************)
MaxFragments == 3

ItemHeader == 8

\* A fragment that ends a JPEG image (it ends with the EOI marker FF D9) and
\* one that does not.
FragmentKinds == {<<1, 255, 217>>, <<2, 3>>}

RECURSIVE FragmentOffset(_, _)
\* The offset of the fragment of 0-based index i.
FragmentOffset(fragments, i) ==
  IF i = 0 THEN 0
  ELSE FragmentOffset(fragments, i - 1) + ItemHeader + Len(fragments[i])

RECURSIVE Concatenated(_, _, _)
\* The bytes of num fragments from the fragment of 0-based index start on.
Concatenated(fragments, start, num) ==
  IF num = 0 THEN <<>>
  ELSE fragments[start + 1] \o Concatenated(fragments, start + 1, num - 1)

\* dicomParser.readEncapsulatedPixelDataFromFragments(dataset, element,
\* startFragmentIndex, numFragments)
readEncapsulatedPixelDataFromFragments(fragments, startFragmentIndex, numFragments) ==
  IF startFragmentIndex >= Len(fragments)
  THEN Throw("dicomParser: startFragmentIndex must be < number of fragments")
  ELSE IF startFragmentIndex + numFragments > Len(fragments)
  THEN Throw("dicomParser: startFragment + numFragments > number of fragments")
  ELSE Ok(Concatenated(fragments, startFragmentIndex, numFragments))

\* The 0-based indexes of the fragments that lie at an offset.
FragmentsAt(fragments, offset) ==
  {i \in 0..(Len(fragments) - 1) : FragmentOffset(fragments, i) = offset}

\* dicomParser.readEncapsulatedImageFrame(dataset, element, frameIndex,
\* basicOffsetTable): the frame runs from the fragment at its offset of the
\* table to the fragment before the one at the next offset, or to the last.
readEncapsulatedImageFrame(fragments, frameIndex, basicOffsetTable) ==
  IF Len(basicOffsetTable) = 0
  THEN Throw("dicomParser: basicOffsetTable has zero entries")
  ELSE IF frameIndex >= Len(basicOffsetTable)
  THEN Throw("dicomParser: frameIndex must be < basicOffsetTable.length")
  ELSE LET starts == FragmentsAt(fragments, basicOffsetTable[frameIndex + 1])
           nexts  == IF frameIndex = Len(basicOffsetTable) - 1 THEN {Len(fragments)}
                     ELSE FragmentsAt(fragments, basicOffsetTable[frameIndex + 2])
       IN  IF starts = {} \/ nexts = {}
           THEN Throw("dicomParser: unable to find fragment that matches basic offset table entry")
           ELSE LET start == CHOOSE i \in starts : TRUE
                    next  == CHOOSE i \in nexts : TRUE
                IN  IF next <= start
                    THEN Throw("dicomParser: unable to find fragment that matches basic offset table entry")
                    ELSE readEncapsulatedPixelDataFromFragments(fragments, start, next - start)

\* Whether a fragment ends with the JPEG end-of-image marker.
EndsImage(fragment) ==
  Len(fragment) >= 2 /\ fragment[Len(fragment) - 1] = 255 /\ fragment[Len(fragment)] = 217

\* dicomParser.createJPEGBasicOffsetTable(dataset, element): the offsets of
\* the first fragment and of every fragment that follows one ending an image.
createJPEGBasicOffsetTable(fragments) ==
  LET starts == {i \in 0..(Len(fragments) - 1) : i = 0 \/ EndsImage(fragments[i])}
      SortedStarts[n \in 0..Len(fragments)] ==
        IF n = 0 THEN <<>>
        ELSE IF (n - 1) \in starts
        THEN Append(SortedStarts[n - 1], FragmentOffset(fragments, n - 1))
        ELSE SortedStarts[n - 1]
  IN  SortedStarts[Len(fragments)]

ReadEncapsulatedFrame_ByCountEquality(numberOfFrames, pixelDataElement, frameIndex) ==
  LET fragments == pixelDataElement.fragments
      oneToOne  == numberOfFrames = Some(Len(fragments))
      reader    == IF Len(pixelDataElement.basicOffsetTable) # 0 THEN "embedded offset table"
                   ELSE IF oneToOne THEN "built offset table"
                   ELSE "fragments"
      read      == IF reader = "embedded offset table"
                   THEN readEncapsulatedImageFrame(fragments, frameIndex,
                                                   pixelDataElement.basicOffsetTable)
                   ELSE IF reader = "built offset table"
                   THEN readEncapsulatedImageFrame(fragments, frameIndex,
                                                   createJPEGBasicOffsetTable(fragments))
                   ELSE readEncapsulatedPixelDataFromFragments(fragments, frameIndex, 1)
  IN  [reader |-> reader, error |-> read.error, value |-> read.value]

\* getEncapsulatedImageFrame(dataset, frameIndex) by the reader it calls:
\* numberOfFrames is dataset.intString('x00280008') (None when the attribute
\* is absent), pixelDataElement is dataset.elements['x7fe00010'].
ReadEncapsulatedFrame(numberOfFrames, pixelDataElement, frameIndex) ==
  LET fragments           == pixelDataElement.fragments
      framesAreFragmented == numberOfFrames # Some(Len(fragments))
      reader    == IF Len(pixelDataElement.basicOffsetTable) # 0 THEN "embedded offset table"
                   ELSE IF framesAreFragmented THEN "built offset table"
                   ELSE "fragments"
      read      == IF reader = "embedded offset table"
                   THEN readEncapsulatedImageFrame(fragments, frameIndex,
                                                   pixelDataElement.basicOffsetTable)
                   ELSE IF reader = "built offset table"
                   THEN readEncapsulatedImageFrame(fragments, frameIndex,
                                                   createJPEGBasicOffsetTable(fragments))
                   ELSE readEncapsulatedPixelDataFromFragments(fragments, frameIndex, 1)
  IN  [reader |-> reader, error |-> read.error, value |-> read.value]

\* The sequences of one to MaxFragments fragments.
FragmentSequences == UNION {[1..n -> FragmentKinds] : n \in 1..MaxFragments}

\* The embedded offset tables of a sequence of fragments: empty, one frame
\* of all the fragments, one frame per fragment.
EmbeddedTables(fragments) ==
  {<<>>, <<0>>, [i \in 1..Len(fragments) |-> FragmentOffset(fragments, i - 1)]}

FragmentInputs ==
  UNION {{[numberOfFrames |-> n, frameIndex |-> f,
           pixelDataElement |-> [encapsulatedPixelData |-> TRUE, fragments |-> fragments,
                                 basicOffsetTable |-> table]] :
            n \in {None} \cup {Some(k) : k \in 1..MaxFragments},
            f \in 0..(MaxFragments - 1),
            table \in EmbeddedTables(fragments)} :
         fragments \in FragmentSequences}

NoFragmentRead == [done |-> FALSE, reader |-> "none", error |-> Undefined, value |-> None]

FragmentIdle ==
  /\ fragmentInput = [numberOfFrames |-> None, frameIndex |-> 0,
                      pixelDataElement |-> [encapsulatedPixelData |-> TRUE,
                                            fragments |-> <<<<1, 255, 217>>>>,
                                            basicOffsetTable |-> <<>>]]
  /\ fragmentOutput = NoFragmentRead

\* getEncapsulatedImageFrame(dataset, frameIndex)
ReadFragments ==
  /\ ~fragmentOutput.done
  /\ LET r == ReadEncapsulatedFrame(fragmentInput.numberOfFrames,
                                    fragmentInput.pixelDataElement, fragmentInput.frameIndex)
     IN  fragmentOutput' = [done |-> TRUE, reader |-> r.reader, error |-> r.error,
                            value |-> IF r.error = Undefined THEN Some(r.value) ELSE None]
  /\ UNCHANGED <<fragmentInput, lruVars, renderVars, extractVars, decodeVars, pipelineLast,
                 assembleVars, colorVars, kernelVars, typedVars>>

(***************************************************************************)
(* toTypedPixelData called on its own.                                     *)
(***************************************************************************)
\* bitsAllocated, bitsStored, highBit
TypedBits ==
  {<<8, 8, 7>>, <<8, 7, 6>>, <<8, 8, 6>>, <<8, 1, 0>>, <<12, 12, 11>>, <<16, 16, 15>>,
   <<16, 12, 11>>, <<16, 8, 7>>, <<24, 24, 23>>, <<32, 32, 31>>, <<32, 8, 7>>}

TypedInputs ==
  {[pixelData |-> bytes, pixelRepresentation |-> pr, bitsAllocated |-> bits[1],
    bitsStored |-> bits[2], highBit |-> bits[3]] :
     bytes \in {<<1, 2>>, <<1, 2, 3>>, <<255, 255, 0, 128>>},
     pr \in {0, 1, 2}, bits \in TypedBits}

NoTyped == [done |-> FALSE, error |-> Undefined, value |-> None]

TypedIdle ==
  /\ typedInput = [pixelData |-> <<1, 2>>, pixelRepresentation |-> 0, bitsAllocated |-> 8,
                   bitsStored |-> 8, highBit |-> 7]
  /\ typedOutput = NoTyped

\* toTypedPixelData(pixelData, pixelRepresentation, bitsAllocated, bitsStored, highBit)
ToTyped ==
  /\ ~typedOutput.done
  /\ LET r == toTypedPixelData(typedInput.pixelData, typedInput.pixelRepresentation,
                               typedInput.bitsAllocated, typedInput.bitsStored,
                               typedInput.highBit)
     IN  typedOutput' = [done |-> TRUE, error |-> r.error,
                         value |-> IF r.error = Undefined THEN Some(r.value) ELSE None]
  /\ UNCHANGED <<typedInput, lruVars, renderVars, extractVars, decodeVars, pipelineLast,
                 assembleVars, colorVars, kernelVars, fragmentVars>>

(***************************************************************************)
(* Specifications                                                          *)
(***************************************************************************)
\* The functions called on their own, but for the extractor, are not called.
UnitIdle ==
  /\ DecodeIdle /\ PipelineIdle /\ AssembleIdle /\ ColorIdle /\ KernelIdle
  /\ FragmentIdle /\ TypedIdle

CacheInit == LruInit /\ RenderInit /\ ExtractIdle /\ UnitIdle

CacheSpec == CacheInit /\ [][CacheNext]_vars

ExtractInit ==
  /\ LruIdle
  /\ RenderInit
  /\ extractInput \in ExtractInputs
  /\ extractOutput = NoExtract
  /\ UnitIdle

ExtractNext == Extract

ExtractSpec == ExtractInit /\ [][ExtractNext]_vars

DecodeInit ==
  /\ LruIdle /\ RenderInit /\ ExtractIdle
  /\ decodeInput \in DecodeInputs
  /\ decodeOutput = NoDecode
  /\ PipelineIdle /\ AssembleIdle /\ ColorIdle /\ KernelIdle /\ FragmentIdle /\ TypedIdle

DecodeNext == Decode

DecodeSpec == DecodeInit /\ [][DecodeNext]_vars

PipelineInit == LruIdle /\ RenderInit /\ ExtractIdle /\ UnitIdle

PipelineNext ==
  \/ \E gpuDevice \in GpuDevices, pi \in PhotometricInterpretations : Create(gpuDevice, pi)
  \/ \E class \in PipelineClasses, initialized \in BOOLEAN, nan \in NanOutcomes :
       RenderInstance(class, initialized, nan)

PipelineSpec == PipelineInit /\ [][PipelineNext]_vars

AssembleInit ==
  /\ LruIdle /\ RenderInit /\ ExtractIdle
  /\ assembleInput \in AssembleInputs
  /\ assembleOutput = NoAssemble
  /\ DecodeIdle /\ PipelineIdle /\ ColorIdle /\ KernelIdle /\ FragmentIdle /\ TypedIdle

AssembleNext == Assemble

AssembleSpec == AssembleInit /\ [][AssembleNext]_vars

ColorInit ==
  /\ LruIdle /\ RenderInit /\ ExtractIdle
  /\ colorImage \in ColorImages
  /\ colorOutput = NoColor
  /\ DecodeIdle /\ PipelineIdle /\ AssembleIdle /\ KernelIdle /\ FragmentIdle /\ TypedIdle

ColorNext == \E planarConfiguration \in {0, 1} : ColorRender(planarConfiguration)

ColorSpec == ColorInit /\ [][ColorNext]_vars

KernelInit ==
  /\ LruIdle /\ RenderInit /\ ExtractIdle
  /\ kernelFrame \in KernelFrames
  /\ renderedWriters = NoWriters(kernelFrame)
  /\ DecodeIdle /\ PipelineIdle /\ AssembleIdle /\ ColorIdle /\ FragmentIdle /\ TypedIdle

KernelNext ==
  \E inv \in Dispatched(MaxKernelDim, MaxKernelDim) : Invocation(inv[1], inv[2])

KernelSpec == KernelInit /\ [][KernelNext]_vars

FragmentInit ==
  /\ LruIdle /\ RenderInit /\ ExtractIdle
  /\ fragmentInput \in FragmentInputs
  /\ fragmentOutput = NoFragmentRead
  /\ DecodeIdle /\ PipelineIdle /\ AssembleIdle /\ ColorIdle /\ KernelIdle /\ TypedIdle

FragmentNext == ReadFragments

FragmentSpec == FragmentInit /\ [][FragmentNext]_vars

TypedInit ==
  /\ LruIdle /\ RenderInit /\ ExtractIdle
  /\ typedInput \in TypedInputs
  /\ typedOutput = NoTyped
  /\ DecodeIdle /\ PipelineIdle /\ AssembleIdle /\ ColorIdle /\ KernelIdle /\ FragmentIdle

TypedNext == ToTyped

TypedSpec == TypedInit /\ [][TypedNext]_vars

Init == LruIdle /\ RenderInit /\ ExtractIdle /\ UnitIdle

\* What the codec backend may do during a render call: it is only called
\* for a container with a codec transfer syntax.
OutcomesOf(request) ==
  IF request.dicomDataBuffer # None
     /\ request.dicomDataBuffer[1].transferSyntaxUid \in CodecSyntaxes
  THEN CodecOutcomes
  ELSE {"decoded"}

Next ==
  \/ Initialize
  \/ InitializeCompleted
  \/ InitializeFailed
  \/ \E request \in Requests : \E outcome \in OutcomesOf(request) : Render(request, outcome)
  \/ \E i \in 1..Len(calls), nan \in NanOutcomes : MapAsyncResolved(i, nan)
  \/ \E i \in 1..Len(calls) : MapAsyncRejected(i)
  \/ \E i \in 1..Len(calls) : RenderReturn(i)

Spec == Init /\ [][Next]_vars

(***************************************************************************)
(* Properties of the caches (CacheSpec)                                    *)
(***************************************************************************)
\* C4: a cache constructed with capacity N >= 1 never stores more than N
\* entries, whatever get and set calls are made.
C4_SizeNeverExceedsCapacity == Len(lruMap) <= lruMax

\* The cache is full and the last call was a set that had to evict.
C4_Witness ==
  /\ Len(lruMap) = lruMax
  /\ lruLast.op = "set"
  /\ lruLast.evicted # {}

\* C5: set evicts only when the key is new and the cache is full, and then
\* exactly the least recently touched key; set on a stored key replaces its
\* value, makes it the most recently used entry and evicts nothing.  In every
\* case the key ends up stored with the new value, last in eviction order, and
\* the other entries keep their values.
C5_SetEvictsExactlyLru ==
  [][\A k \in LruKeys, v \in LruValues :
       LruSet(k, v) =>
         LET before  == MapKeys(lruMap)
             after   == MapKeys(lruMap')
             evicted == before \ after
         IN  /\ MapGet(lruMap', k) = Some(v)
             /\ lruMap'[Len(lruMap')].key = k
             /\ after = (before \ evicted) \cup {k}
             /\ \A j \in after \ {k} : MapGet(lruMap', j) = MapGet(lruMap, j)
             /\ evicted = IF k \notin before /\ Len(lruMap) = lruMax
                          THEN {LeastRecent(lruRecency, before)}
                          ELSE {}]_vars

\* A set of a new key has just evicted from a cache of capacity 2 or more
\* whose least recently touched key was chosen among several.
C5_Witness ==
  /\ lruMax >= 2
  /\ lruLast.op = "set"
  /\ ~lruLast.hit
  /\ Cardinality(lruLast.evicted) = 1

\* C6 as stated: after a hitting get(k) followed at once by the insertion of
\* capacity new distinct keys, k is still stored and the older keys are not.
C6_Original ==
  (lruProbe.key # 0 /\ lruProbe.inserts = lruMax) =>
     /\ MapHas(lruMap, lruProbe.key)
     /\ lruProbe.older \cap MapKeys(lruMap) = {}

\* C6 as amended: a hitting get(k) promotes k, so k survives the insertion of
\* up to capacity - 1 new distinct keys right after it; when the cache was
\* full at the time of the get, capacity - 1 insertions evict every older
\* untouched key while k is still stored.  (The capacity-th insertion evicts
\* k itself.)
C6_GetPromotes ==
  lruProbe.key # 0 =>
     /\ lruProbe.inserts <= lruMax - 1 =>
           /\ MapHas(lruMap, lruProbe.key)
           /\ MapGet(lruMap, lruProbe.key) # None
     /\ (lruProbe.inserts = lruMax - 1 /\ lruProbe.full) =>
           lruProbe.older \cap MapKeys(lruMap) = {}
     /\ lruProbe.inserts = lruMax => ~MapHas(lruMap, lruProbe.key)

\* A get hit a full cache of capacity 2 or more, and capacity - 1 new keys
\* were inserted right after it.
C6_Witness ==
  /\ lruMax >= 2
  /\ lruProbe.key # 0
  /\ lruProbe.full
  /\ lruProbe.older # {}
  /\ lruProbe.inserts = lruMax - 1

(***************************************************************************)
(* Properties of render (Spec)                                             *)
(***************************************************************************)
\* C1: of two render calls made one right after the other, the second after
\* the first completed, with the same non-empty cacheKey and the same
\* container bytes, the first having assembled a frame, the second does not
\* reach FrameDecoder.decodeFrameData; when it gets as far as the lookup (it
\* was given a GPU device) it takes the first call's frame from the cache.
C1_SecondCallDoesNotDecode ==
  \A j \in 2..Len(calls) :
    LET first  == calls[j - 1]
        second == calls[j]
    IN  (/\ (j - 1) \notin second.overlapped
         /\ UsesCacheKey(first.options)
         /\ second.options.cacheKey = first.options.cacheKey
         /\ second.dicomDataBuffer = first.dicomDataBuffer
         /\ first.imageFrameCreated)
        => /\ second.decodeCalls = 0
           /\ second.codecCalls = 0
           /\ second.gpuDevice # Undefined =>
                /\ second.cacheHit
                /\ ~second.imageFrameCreated
                /\ second.imageFrame = first.imageFrame

\* Two such calls were made and both returned a result; the first decoded.
C1_Witness ==
  /\ Len(calls) = 2
  /\ calls[1].pc = "fulfilled"
  /\ calls[2].pc = "fulfilled"
  /\ 1 \notin calls[2].overlapped
  /\ UsesCacheKey(calls[1].options)
  /\ calls[2].options.cacheKey = calls[1].options.cacheKey
  /\ calls[2].dicomDataBuffer = calls[1].dicomDataBuffer
  /\ calls[1].imageFrameCreated
  /\ calls[1].decodeCalls = 1
  /\ calls[2].cacheHit

\* The number of samples the pixels of a frame need.
SamplesNeeded(imageFrame) ==
  imageFrame.rows * imageFrame.columns * imageFrame.samplesPerPixel

\* C2: every render call that returns, returns a complete result: pixelData
\* is defined and has 4 x width x height bytes, width is the frame's columns
\* and height its rows, and the frame holds the samples of every pixel, so
\* that no pixel of the result was produced from anything else.
C2_CompleteResult ==
  \A i \in 1..Len(calls) :
    calls[i].pc = "fulfilled" =>
      /\ calls[i].result # None
      /\ calls[i].imageFrame # None
      /\ LET result     == calls[i].result[1]
             imageFrame == calls[i].imageFrame[1]
         IN  /\ result.width = imageFrame.columns
             /\ result.height = imageFrame.rows
             /\ Len(result.pixelData) = 4 * result.width * result.height
             /\ Len(imageFrame.pixelData) >= SamplesNeeded(imageFrame)

\* The number of frames the pixel data element of a dataset holds.
FramesIn(dataset) ==
  LET element == dataset.pixelDataElement[1]
      frameLength == dataset.rows * dataset.columns * dataset.samplesPerPixel
                       * (dataset.bitsAllocated \div 8)
  IN  IF element.encapsulatedPixelData THEN Len(dataset.encapsulatedFrames)
      ELSE IF frameLength = 0 THEN 0
      ELSE element.length \div frameLength

\* The inputs C3 lists.
InvalidInput(call) ==
  \/ call.gpuDevice = Undefined
  \/ call.dicomDataBuffer = None
  \/ /\ call.dicomDataBuffer # None
     /\ LET dataset == call.dicomDataBuffer[1]
        IN  \/ ~dataset.parses
            \/ dataset.transferSyntaxUid \notin SupportedSyntaxes
            \/ dataset.rows = 0
            \/ dataset.columns = 0
            \/ dataset.bitsAllocated \notin {8, 16}
            \/ dataset.pixelDataElement = None
            \/ /\ dataset.pixelDataElement # None
               /\ call.options.frameIndex >= FramesIn(dataset)

\* C3: a render call fails, returning no result, when the GPU device or the
\* container bytes are absent, the container does not parse, its transfer
\* syntax UID is missing or unsupported, rows or columns are missing,
\* bitsAllocated is not 8 or 16, the pixel data element is absent or the
\* requested frame is out of range.
C3_InvalidInputsFail ==
  \A i \in 1..Len(calls) : InvalidInput(calls[i]) => calls[i].pc = "rejected"

\* C7: once a render call has completed, by returning or by throwing, none
\* of the GPU buffers it created is alive.
C7_BuffersDestroyed ==
  \A i \in 1..Len(calls) :
    calls[i].pc \in {"fulfilled", "rejected"} => \A b \in gpuBuffers : b.call # i

\* Call j was made while the earlier call i was in flight, with the cacheKey
\* of call i, to a GPU device, and fewer frames than the frame cache holds
\* were stored in between.
Overlap(i, j) ==
  /\ i < j
  /\ i \in calls[j].overlapped
  /\ UsesCacheKey(calls[i].options)
  /\ calls[j].options.cacheKey = calls[i].options.cacheKey
  /\ calls[j].gpuDevice # Undefined
  /\ calls[j].dicomDataBuffer # None
  /\ Cardinality({k \in (i + 1)..(j - 1) : calls[k].stored}) < ImageFrameCacheMax

\* C8 as stated, of the overlapping calls that share a cacheKey: the second
\* caller passes the lookup as a miss and decodes again.
C8_Original ==
  \A i \in 1..Len(calls), j \in 1..Len(calls) :
    (Overlap(i, j) /\ calls[i].imageFrameCreated) =>
       /\ ~calls[j].cacheHit
       /\ calls[j].decodeCalls > 0

\* C8 as amended: render runs from the lookup to the store without
\* suspending, so a call made while an earlier call with the same cacheKey
\* is in flight finds that call's frame in the cache and decodes nothing.
C8_NoRace ==
  \A i \in 1..Len(calls), j \in 1..Len(calls) :
    Overlap(i, j) =>
       /\ calls[j].cacheHit
       /\ calls[j].decodeCalls = 0
       /\ calls[j].codecCalls = 0
       /\ calls[j].imageFrame = calls[i].imageFrame

\* The second call was made while the first, which decoded, was awaiting
\* mapAsync, with the first call's cacheKey.
C8_Witness ==
  /\ Len(calls) = 2
  /\ Overlap(1, 2)
  /\ calls[1].imageFrameCreated
  /\ calls[1].decodeCalls = 1
  /\ calls[1].pc = "mapAsync"
  /\ calls[2].pc = "mapAsync"

\* The checks createImageFrame makes before it asks whether the frame
\* decoder is initialized.
PassesChecksBeforeDecode(dataset, frameIndex) ==
  /\ dataset.parses
  /\ dataset.transferSyntaxUid # Undefined
  /\ getPixelData(dataset, frameIndex).error = Undefined
  /\ dataset.rows # 0
  /\ dataset.columns # 0
  /\ dataset.bitsAllocated \in {8, 16}

\* A call that has to assemble a frame while the frame decoder is not
\* initialized.
AssemblesUninitialized(call) ==
  /\ call.apiAtStart = Undefined
  /\ call.gpuDevice # Undefined
  /\ call.dicomDataBuffer # None
  /\ ~call.cacheHit

\* What C9 says of every such call but for the error it fails with: it
\* fails, decodes nothing and stores nothing.
FailsBeforeDecode(call) ==
  /\ call.pc = "rejected"
  /\ call.decodeCalls = 0
  /\ call.codecCalls = 0
  /\ call.imageFrame = None
  /\ ~call.stored

\* C9 as stated: a codec backend is only invoked after initialize completed,
\* and a call that has to assemble a frame while the frame decoder is not
\* initialized fails with the not-initialized error, decodes nothing and
\* stores nothing.
C9_Original ==
  \A i \in 1..Len(calls) :
    /\ calls[i].codecCalls > 0 => calls[i].initializeAtStart = "completed"
    /\ AssemblesUninitialized(calls[i]) =>
         /\ FailsBeforeDecode(calls[i])
         /\ calls[i].error = "Frame decoder is not initialized"

\* C9 as amended: the frame decoder is initialized exactly when an
\* initialize call completed; a codec backend is only invoked after that; a
\* call that has to assemble a frame before that fails, decodes nothing and
\* stores nothing, whatever the transfer syntax, and the error is the
\* not-initialized error when the container passes the checks that come
\* before decoding (otherwise it is the error of the first check that fails).
C9_NoDecodeBeforeInitialize ==
  /\ frameDecoderApi # Undefined <=> initializeState = "completed"
  /\ frameDecoderApi = Undefined => imageFrameCache = <<>>
  /\ \A i \in 1..Len(calls) :
       /\ calls[i].apiAtStart = Undefined <=> calls[i].initializeAtStart # "completed"
       /\ calls[i].codecCalls > 0 => calls[i].initializeAtStart = "completed"
       /\ AssemblesUninitialized(calls[i]) =>
            /\ FailsBeforeDecode(calls[i])
            /\ calls[i].error # Undefined
            /\ PassesChecksBeforeDecode(calls[i].dicomDataBuffer[1],
                                        calls[i].options.frameIndex)
                 => calls[i].error = "Frame decoder is not initialized"

\* A compressed frame was asked for while initialize was pending and a
\* natively stored one after initialize had failed; both calls failed with
\* the not-initialized error.
C9_Witness ==
  /\ Len(calls) = 2
  /\ calls[1].initializeAtStart = "pending"
  /\ AssemblesUninitialized(calls[1])
  /\ calls[1].dicomDataBuffer[1].transferSyntaxUid \in CodecSyntaxes
  /\ calls[1].error = "Frame decoder is not initialized"
  /\ calls[2].initializeAtStart = "failed"
  /\ AssemblesUninitialized(calls[2])
  /\ calls[2].dicomDataBuffer[1].transferSyntaxUid \in LittleEndianSyntaxes
  /\ calls[2].error = "Frame decoder is not initialized"

(***************************************************************************)
(* Properties of the sample extractor (ExtractSpec)                        *)
(***************************************************************************)
\* C10: for natively stored pixel data the extractor returns exactly the
\* frameLength = rows x columns x samplesPerPixel x (bitsAllocated / 8)
\* bytes that start frameIndex x frameLength bytes into the pixel data, and
\* throws when that offset or the end of the frame lies beyond the length of
\* the container's data, or when bitsAllocated is neither 8 nor 16; it never
\* returns fewer bytes than one frame.
C10_ExactFrameOrFailure ==
  extractOutput.done =>
    LET dataset     == extractInput.dataset
        byteArray   == dataset.byteArray
        view        == SubSeq(byteArray.buffer, byteArray.byteOffset + 1,
                              byteArray.byteOffset + byteArray.length)
        frameLength == dataset.rows * dataset.columns * dataset.samplesPerPixel
                         * (dataset.bitsAllocated \div 8)
        offset      == dataset.pixelDataElement[1].dataOffset
                         + extractInput.frameIndex * frameLength
    IN  /\ dataset.bitsAllocated \notin {8, 16} => extractOutput.error # Undefined
        /\ offset + frameLength > byteArray.length => extractOutput.error # Undefined
        /\ extractOutput.error = Undefined =>
             /\ Len(extractOutput.value) = frameLength
             /\ offset + frameLength <= byteArray.length
             /\ extractOutput.value = SubSeq(view, offset + 1, offset + frameLength)

(***************************************************************************)
(* Properties of the decode dispatcher (DecodeSpec)                        *)
(***************************************************************************)
\* C11: decodeFrameData throws the missing-input error whenever the request
\* carries no encoded buffer, and the unsupported-transfer-syntax error for
\* every transfer syntax UID outside the dispatch table (of a request that
\* carries a buffer: the buffer is looked at first); in both cases it
\* returns nothing and calls no function of the codec backend, whether the
\* backend is initialized or not.
C11_MissingInputOrUnsupported ==
  decodeOutput.done =>
    LET noBuffer == decodeInput.frameParameters.encodedBuffer = None
        unknown  == decodeInput.transferSyntaxUid \notin SupportedSyntaxes
    IN  /\ noBuffer => decodeOutput.error = "No encoded buffer provided"
        /\ (unknown /\ ~noBuffer) =>
             decodeOutput.error = "Unsupported transfer syntax UID"
        /\ (unknown \/ noBuffer) =>
             /\ decodeOutput.error # Undefined
             /\ decodeOutput.value = None
             /\ decodeOutput.calls = <<>>

\* An RLE frame was to be decoded by an initialized decoder, but the request
\* carried no encoded buffer.
C11_Witness ==
  /\ decodeOutput.done
  /\ decodeInput.api # Undefined
  /\ decodeInput.transferSyntaxUid = RleLossless
  /\ decodeInput.frameParameters.encodedBuffer = None
  /\ decodeOutput.error = "No encoded buffer provided"

(***************************************************************************)
(* Properties of the pipelines (PipelineSpec)                              *)
(***************************************************************************)
SupportedInterpretations == {"MONOCHROME1", "MONOCHROME2", "RGB"}

\* C12: whatever Pipeline.create and render calls came before, Pipeline.create
\* called with a photometric interpretation that is none of MONOCHROME1,
\* MONOCHROME2 and RGB throws the unsupported-photometric-interpretation
\* error (for the empty string of an absent attribute: the error that the
\* photometric interpretation is required), returns no pipeline, constructs
\* none and leaves the pipeline cache as it was; the cache never holds an
\* entry for such a photometric interpretation.
C12_UnsupportedInterpretationFails ==
  /\ MapKeys(pipelineCache) \subseteq SupportedInterpretations
  /\ (/\ pipelineLast.op = "create"
      /\ pipelineLast.photometricInterpretation \notin SupportedInterpretations)
     => /\ pipelineLast.error =
             IF pipelineLast.photometricInterpretation = ""
             THEN "Photometric interpretation is required"
             ELSE "Unsupported photometric interpretation"
        /\ pipelineLast.pipeline = None
        /\ pipelineLast.created = 0
        /\ pipelineCache = pipelineLast.before

\* Pipelines of the three supported photometric interpretations were created
\* and cached, then Pipeline.create was called for YBR_FULL and threw.
C12_Witness ==
  /\ pipelineLast.op = "create"
  /\ pipelineLast.photometricInterpretation = "YBR_FULL"
  /\ pipelineLast.error = "Unsupported photometric interpretation"
  /\ MapKeys(pipelineLast.before) = SupportedInterpretations

C14_SampleCountAndBits ==
  assembleOutput.value # None =>
    LET imageFrame == assembleOutput.value[1]
    IN  /\ Len(imageFrame.pixelData) = SamplesNeeded(imageFrame)
        /\ imageFrame.bitsAllocated \in {8, 16}

\* C15: every frame createImageFrame returns has a window width above 0,
\* whether the window is the container's or derived from the samples.
C15_WindowWidthPositive ==
  assembleOutput.value # None =>
    /\ assembleOutput.value[1].windowWidth # NaN
    /\ assembleOutput.value[1].windowWidth > 0

\* The derived window of a frame, in halves: width = voiMax - voiMin and
\* center = (voiMax + voiMin) / 2 for voiMin = min * slope + intercept and
\* voiMax = max * slope + intercept; not a number when the frame has no
\* sample to take a minimum of.
DerivedWindow(imageFrame) ==
  LET voiMin == imageFrame.minPixelValue * imageFrame.rescaleSlope
                  + imageFrame.rescaleIntercept
      voiMax == imageFrame.maxPixelValue * imageFrame.rescaleSlope
                  + imageFrame.rescaleIntercept
  IN  IF imageFrame.minPixelValue = NaN \/ imageFrame.maxPixelValue = NaN
      THEN [windowCenter |-> NaN, windowWidth |-> NaN]
      ELSE [windowCenter |-> voiMax + voiMin, windowWidth |-> 2 * (voiMax - voiMin)]

\* The frame has the derived window, and the window spans the rescaled
\* minimum and maximum: center - width / 2 and center + width / 2.
HasDerivedWindow(imageFrame) ==
  /\ imageFrame.windowCenter = DerivedWindow(imageFrame).windowCenter
  /\ imageFrame.windowWidth = DerivedWindow(imageFrame).windowWidth
  /\ imageFrame.minPixelValue # NaN =>
       /\ 2 * imageFrame.windowCenter - imageFrame.windowWidth
            = 4 * (imageFrame.minPixelValue * imageFrame.rescaleSlope
                     + imageFrame.rescaleIntercept)
       /\ 2 * imageFrame.windowCenter + imageFrame.windowWidth
            = 4 * (imageFrame.maxPixelValue * imageFrame.rescaleSlope
                     + imageFrame.rescaleIntercept)

\* C16 as stated: a window center the container supplies is used as given
\* (its first value), and so is a window width; the derived values are used
\* only when the container supplies neither.
C16_Original ==
  assembleOutput.value # None =>
    LET imageFrame == assembleOutput.value[1]
        wc         == assembleInput.dataset.windowCenter
        ww         == assembleInput.dataset.windowWidth
    IN  /\ wc # None => imageFrame.windowCenter = 2 * wc[1]
        /\ ww # None => imageFrame.windowWidth = 2 * ww[1]
        /\ (wc = None /\ ww = None) => HasDerivedWindow(imageFrame)

\* C16 as amended: when the container supplies both a window center and a
\* window width, the first value of each is used as given; when it lacks
\* either of the two, both are derived (a center or width supplied alone is
\* not used): width = voiMax - voiMin and center = (voiMax + voiMin) / 2 with
\* voiMin = min * slope + intercept and voiMax = max * slope + intercept, so
\* that center - width / 2 is the rescaled minimum and center + width / 2 the
\* rescaled maximum.
C16_WindowResolution ==
  assembleOutput.value # None =>
    LET imageFrame == assembleOutput.value[1]
        wc         == assembleInput.dataset.windowCenter
        ww         == assembleInput.dataset.windowWidth
    IN  /\ (wc # None /\ ww # None) =>
             /\ imageFrame.windowCenter = 2 * wc[1]
             /\ imageFrame.windowWidth = 2 * ww[1]
        /\ (wc = None \/ ww = None) => HasDerivedWindow(imageFrame)

\* A frame of two 16-bit samples that differ was assembled from a container
\* that supplies a window center but no window width, with a rescale slope
\* and intercept: the window was derived.
C16_Witness ==
  /\ assembleOutput.value # None
  /\ assembleInput.dataset.windowCenter # None
  /\ assembleInput.dataset.windowWidth = None
  /\ assembleInput.dataset.rescaleSlope = 2
  /\ assembleInput.dataset.rescaleIntercept = -3
  /\ Len(assembleOutput.value[1].pixelData) = 2
  /\ assembleOutput.value[1].minPixelValue < assembleOutput.value[1].maxPixelValue
  /\ assembleOutput.value[1].windowWidth
       = 4 * (assembleOutput.value[1].maxPixelValue - assembleOutput.value[1].minPixelValue)

(***************************************************************************)
(* Properties of the color render (ColorSpec)                              *)
(***************************************************************************)
\* The RGBA bytes of a logical image: the three channels of every pixel in
\* turn, followed by 255.
ExpectedRgba(image) ==
  [b \in 1..(4 * Len(image.pixels)) |->
     IF (b - 1) % 4 = 3 THEN 255 ELSE image.pixels[((b - 1) \div 4) + 1][((b - 1) % 4) + 1]]

\* An output of the color render for the logical image: 4 x rows x columns
\* bytes, every 4th of them 255, the others the channels of the pixels.
RendersImage(result, image) ==
  /\ result.width = image.columns
  /\ result.height = image.rows
  /\ Len(result.pixelData) = 4 * image.rows * image.columns
  /\ \A i \in 1..(image.rows * image.columns) : result.pixelData[4 * i] = 255
  /\ result.pixelData = ExpectedRgba(image)

\* C17: the color render gives the same RGBA output for a logical image
\* whether its samples are arranged by pixel (planarConfiguration 0) or by
\* plane (planarConfiguration 1): in both cases 4 x rows x columns bytes that
\* hold the channels of every pixel followed by an alpha of 255.
C17_PlanarMatchesInterleaved ==
  /\ colorOutput.interleaved # None => RendersImage(colorOutput.interleaved[1], colorImage)
  /\ colorOutput.planar # None => RendersImage(colorOutput.planar[1], colorImage)
  /\ (colorOutput.interleaved # None /\ colorOutput.planar # None) =>
       colorOutput.interleaved = colorOutput.planar

\* An image of 2 x 2 pixels whose two arrangements differ was rendered from
\* both, to 16 bytes.
C17_Witness ==
  /\ colorImage.rows = 2
  /\ colorImage.columns = 2
  /\ Interleaved(colorImage) # Planar(colorImage)
  /\ colorOutput.interleaved # None
  /\ colorOutput.planar # None
  /\ Len(colorOutput.planar[1].pixelData) = 16

(***************************************************************************)
(* Properties of the grayscale compute kernel (KernelSpec)                 *)
(***************************************************************************)
\* C18: the only invocations that store to the output are those of the
\* pixels of the frame: an invocation (x, y) with x >= columns or y >= rows
\* stores nothing, and output element idx is stored to by the invocation
\* (x, y) with x < columns, y < rows and idx = columns * y + x alone.
C18_OnlyFrameInvocationsStore ==
  \A idx \in DOMAIN renderedWriters :
    /\ \A w \in renderedWriters[idx] :
         /\ w[1] < kernelFrame.columns
         /\ w[2] < kernelFrame.rows
         /\ idx = kernelFrame.columns * w[2] + w[1]
    /\ Cardinality(renderedWriters[idx]) <= 1

(***************************************************************************)
(* Properties of the backend protocol (DecodeSpec)                         *)
(***************************************************************************)
DecodeEntryPoints == {"wasmDecodeRle", "wasmDecodeJpeg", "wasmDecodeJpegLs", "wasmDecodeJpeg2000"}

\* The functions that push the scalar attributes and the encoded buffer
\* into a context, and those that pull the attributes and the decoded
\* buffer out of it.
PushFunctions ==
  {"wasmSetColumns", "wasmSetRows", "wasmSetBitsAllocated", "wasmSetBitsStored",
   "wasmSetSamplesPerPixel", "wasmSetPixelRepresentation", "wasmSetPlanarConfiguration",
   "wasmSetPhotometricInterpretation", "wasmSetEncodedBufferSize", "wasmGetEncodedBuffer"}

PullFunctions ==
  {"wasmGetDecodedBuffer", "wasmGetDecodedBufferSize", "wasmGetColumns", "wasmGetRows",
   "wasmGetBitsAllocated", "wasmGetBitsStored", "wasmGetSamplesPerPixel",
   "wasmGetPixelRepresentation", "wasmGetPlanarConfiguration",
   "wasmGetPhotometricInterpretation"}

\* The positions in a sequence of backend calls of the calls of fns.
CallsOf(backendCalls, fns) == {i \in 1..Len(backendCalls) : backendCalls[i].fn \in fns}

\* The object the constructor `create` makes is released by `release`, once,
\* after it was made, and no call is made on it after that.
ReleasedAfterUse(backendCalls, handle, create, release) ==
  \A i \in CallsOf(backendCalls, {create}) :
    \E j \in CallsOf(backendCalls, {release}) :
      /\ i < j
      /\ CallsOf(backendCalls, {release}) = {j}
      /\ \A k \in 1..Len(backendCalls) : backendCalls[k].handle = handle => k <= j

\* C19: a decode that is delegated to the backend opens a context, pushes
\* the scalar attributes and the encoded buffer, calls exactly one decode
\* entry point, that of the codec family of the transfer syntax, pulls the
\* decoded buffer and the scalar attributes, and releases the context; the
\* context and the decoder-parameter object it opens are released before the
\* call ends and are not used after their release.
C19_ProtocolFollowed ==
  (decodeOutput.done /\ decodeOutput.calls # <<>>) =>
    LET backendCalls == decodeOutput.calls
        entries      == CallsOf(backendCalls, DecodeEntryPoints)
    IN  /\ backendCalls[1].fn = "wasmCreateCodecsContext"
        /\ Cardinality(entries) = 1
        /\ \A e \in entries :
             /\ backendCalls[e].fn = EntryPoint(decodeInput.transferSyntaxUid)
             /\ \A f \in PushFunctions :
                  \E i \in CallsOf(backendCalls, {f}) : 1 < i /\ i < e
             /\ \A i \in CallsOf(backendCalls, PushFunctions) : i < e
             /\ \A f \in PullFunctions :
                  \E i \in CallsOf(backendCalls, {f}) : e < i
             /\ \A i \in CallsOf(backendCalls, PullFunctions) : e < i
        /\ backendCalls[Len(backendCalls)].fn = "wasmReleaseCodecsContext"
        /\ ReleasedAfterUse(backendCalls, "ctx", "wasmCreateCodecsContext",
                            "wasmReleaseCodecsContext")
        /\ ReleasedAfterUse(backendCalls, "params", "wasmCreateDecoderParameters",
                            "wasmReleaseDecoderParameters")

(***************************************************************************)
(* Properties of a codec exception (Spec)                                  *)
(***************************************************************************)
\* The decodeFrameData calls that reach a backend entry point which then
\* reports through the exception channel.
ExceptionDecodes == {d \in DecodeInputs : d.outcome = "exception" /\ InvokesCodec(d.api, d.transferSyntaxUid, d.frameParameters)}

\* decodeFrameData fails with the codec error on every one of them and gives
\* no DecodeResult.
ExceptionDecodesFail ==
  \A d \in ExceptionDecodes :
    LET decoded == decodeFrameData(d.api, d.transferSyntaxUid, d.frameParameters, d.outcome)
    IN  decoded.error = "codec exception" /\ decoded.value = None

\* C20: when the codec backend reports through its exception channel during
\* a decode, decodeFrameData fails with that error and gives no
\* DecodeResult, and the enclosing render call is rejected with that error:
\* it has no ImageFrame and no RGBA output, it created no frame and it
\* stored nothing in the frame cache.
C20_CodecExceptionSurfaces ==
  /\ ExceptionDecodesFail
  /\ \A i \in 1..Len(calls) :
       calls[i].codecException =>
         /\ calls[i].pc = "rejected"
         /\ calls[i].error = "codec exception"
         /\ calls[i].imageFrame = None
         /\ ~calls[i].imageFrameCreated
         /\ calls[i].result = None
         /\ ~calls[i].stored
         /\ calls[i].pipeline = None
         /\ ~calls[i].buffersCreated

\* A render call with a cache key, on an initialized decoder, whose backend
\* entry point was called once and reported an exception; the call was
\* rejected and the frame cache holds nothing under its key.
C20_Witness ==
  \E i \in 1..Len(calls) :
    /\ calls[i].codecException
    /\ calls[i].codecCalls = 1
    /\ calls[i].apiAtStart # Undefined
    /\ UsesCacheKey(calls[i].options)
    /\ calls[i].pc = "rejected"
    /\ CacheGet(imageFrameCache, calls[i].options.cacheKey) = None

(***************************************************************************)
(* Properties of the encapsulated sample extractor (FragmentSpec)          *)
(***************************************************************************)
\* The embedded offset table of the call is empty.
EmptyOffsetTable == Len(fragmentInput.pixelDataElement.basicOffsetTable) = 0

\* The number of fragments of the call equals its number of frames.
CountsEqual ==
  fragmentInput.numberOfFrames = Some(Len(fragmentInput.pixelDataElement.fragments))

\* C21 as stated: with an empty embedded offset table the extractor builds
\* an offset table when the number of fragments equals the number of frames
\* and reads by fragment scanning otherwise; with a non-empty embedded
\* offset table it locates the frame through that table.
C21_Original ==
  fragmentOutput.done =>
    /\ ~EmptyOffsetTable => fragmentOutput.reader = "embedded offset table"
    /\ (EmptyOffsetTable /\ CountsEqual) => fragmentOutput.reader = "built offset table"
    /\ (EmptyOffsetTable /\ ~CountsEqual) => fragmentOutput.reader = "fragments"

\* C21: with an empty embedded offset table the extractor chooses its path
\* by count equality, the other way round: when the number of fragments
\* equals the number of frames it reads the fragment of the frame index
\* directly, and when the two differ (or the number of frames is absent) it
\* builds an offset table by scanning the fragments and locates the frame
\* through it; with a non-empty embedded offset table it always locates the
\* frame through that table.
C21_PathByCountEquality ==
  fragmentOutput.done =>
    /\ ~EmptyOffsetTable => fragmentOutput.reader = "embedded offset table"
    /\ (EmptyOffsetTable /\ CountsEqual) =>
         /\ fragmentOutput.reader = "fragments"
         /\ fragmentInput.frameIndex < Len(fragmentInput.pixelDataElement.fragments) =>
              fragmentOutput.value =
                Some(fragmentInput.pixelDataElement.fragments[fragmentInput.frameIndex + 1])
    /\ (EmptyOffsetTable /\ ~CountsEqual) => fragmentOutput.reader = "built offset table"

\* Two frames of two fragments with no embedded offset table: the second
\* frame was read as the second fragment.
C21_Witness ==
  /\ fragmentOutput.done
  /\ EmptyOffsetTable
  /\ CountsEqual
  /\ Len(fragmentInput.pixelDataElement.fragments) = 2
  /\ fragmentInput.frameIndex = 1
  /\ fragmentOutput.reader = "fragments"
  /\ fragmentOutput.error = Undefined

(***************************************************************************)
(* Properties of the uncompressed decodes (DecodeSpec)                     *)
(***************************************************************************)
\* The decode of the call returned a decoded buffer.
Decoded == decodeOutput.done /\ decodeOutput.error = Undefined

\* Whether out holds the bytes of buf with the two bytes of every complete
\* 2-byte unit exchanged.
UnitsSwapped(buf, out) ==
  /\ Len(out) = Len(buf)
  /\ \A u \in 1..(Len(buf) \div 2) :
       out[2 * u - 1] = buf[2 * u] /\ out[2 * u] = buf[2 * u - 1]

\* C22: for the uncompressed little-endian transfer syntaxes decodeFrameData
\* returns a decoded buffer equal to the encoded buffer; for explicit
\* big-endian it exchanges the two bytes of every 2-byte unit when
\* 8 < bitsAllocated <= 16 and returns the bytes unchanged when bitsAllocated
\* is 8; the call succeeds whenever there is an encoded buffer, and the
\* caller's encoded buffer is as it was.
C22_UncompressedDecodes ==
  LET uid     == decodeInput.transferSyntaxUid
      p       == decodeInput.frameParameters
      encoded == p.encodedBuffer
  IN  (decodeOutput.done /\ encoded # None
         /\ uid \in LittleEndianSyntaxes \cup {ExplicitVRBigEndian}) =>
        /\ Decoded
        /\ decodeOutput.encodedBuffer = encoded
        /\ uid \in LittleEndianSyntaxes => decodeOutput.value[1].decodedBuffer = encoded
        /\ (uid = ExplicitVRBigEndian /\ p.bitsAllocated = 8) =>
             decodeOutput.value[1].decodedBuffer = encoded
        /\ (uid = ExplicitVRBigEndian /\ p.bitsAllocated > 8 /\ p.bitsAllocated <= 16) =>
             /\ decodeOutput.value[1].decodedBuffer # None
             /\ UnitsSwapped(encoded[1], decodeOutput.value[1].decodedBuffer[1])

\* A big-endian frame of two 12-bit samples in four bytes was decoded to a
\* buffer that differs from the encoded one.
C22_Witness ==
  /\ Decoded
  /\ decodeInput.transferSyntaxUid = ExplicitVRBigEndian
  /\ decodeInput.frameParameters.bitsAllocated = 12
  /\ decodeInput.frameParameters.encodedBuffer = Some(<<1, 2, 3, 4>>)
  /\ decodeOutput.value[1].decodedBuffer = Some(<<2, 1, 4, 3>>)
  /\ decodeOutput.encodedBuffer = Some(<<1, 2, 3, 4>>)

\* The big-endian decode of the decoded buffer of the call, with the other
\* frame parameters as they were.
DecodedAgain ==
  decodeFrameData(decodeInput.api, ExplicitVRBigEndian,
                  [decodeInput.frameParameters EXCEPT
                     !.encodedBuffer = decodeOutput.value[1].decodedBuffer],
                  decodeInput.outcome)

\* C23: the big-endian byte swap is an involution: for an even-length buffer
\* and bitsAllocated 16, the big-endian decode of the output of a big-endian
\* decode returns a buffer equal to the original.
C23_SwapIsInvolution ==
  (/\ Decoded
   /\ decodeInput.transferSyntaxUid = ExplicitVRBigEndian
   /\ decodeInput.frameParameters.bitsAllocated = 16
   /\ Len(decodeInput.frameParameters.encodedBuffer[1]) % 2 = 0) =>
    /\ DecodedAgain.error = Undefined
    /\ DecodedAgain.value.decodedBuffer = decodeInput.frameParameters.encodedBuffer

\* A 16-bit big-endian frame of four bytes was decoded to other bytes, which
\* decode back to the four bytes.
C23_Witness ==
  /\ Decoded
  /\ decodeInput.transferSyntaxUid = ExplicitVRBigEndian
  /\ decodeInput.frameParameters.bitsAllocated = 16
  /\ decodeInput.frameParameters.encodedBuffer = Some(<<1, 2, 3, 4>>)
  /\ decodeOutput.value[1].decodedBuffer # decodeInput.frameParameters.encodedBuffer
  /\ DecodedAgain.value.decodedBuffer = Some(<<1, 2, 3, 4>>)

(***************************************************************************)
(* Properties of toTypedPixelData (TypedSpec)                              *)
(***************************************************************************)
\* The 16-bit view of a byte buffer: unsigned, or signed.
View16(bytes, signed) ==
  IF signed THEN [i \in 1..Len(Uint16View(bytes)) |-> ToInt16(Uint16View(bytes)[i])]
  ELSE Uint16View(bytes)

\* C24: toTypedPixelData returns the 8-bit buffer unchanged exactly when
\* bitsStored = 8, highBit = 7 and bitsAllocated = 8; returns a 16-bit view
\* of the bytes, signed when pixelRepresentation = 1 and unsigned otherwise,
\* when the data is 16-bit allocated; and fails with the
\* unsupported-bits-stored error for every other combination.
C24_TypedViewByBits ==
  typedOutput.done =>
    LET t == typedInput
    IN  IF t.bitsStored = 8 /\ t.highBit = 7 /\ t.bitsAllocated = 8
        THEN typedOutput.value = Some(t.pixelData)
        ELSE IF t.bitsAllocated = 16
        THEN typedOutput.value = Some(View16(t.pixelData, t.pixelRepresentation = 1))
        ELSE /\ typedOutput.error = "Unsupported pixel data value for bits stored"
             /\ typedOutput.value = None

(***************************************************************************)
(* Properties of the shared pipelines (Spec)                               *)
(***************************************************************************)
\* The pipeline instances the pipeline cache holds.
CachedPipelines == {pipelineCache[k].value : k \in 1..Len(pipelineCache)}

\* C25: pipeline instances are created lazily and then shared: at most one
\* instance is created and initialized per category (grayscale for
\* MONOCHROME1 and MONOCHROME2, color for RGB), every call that selects a
\* category is given that same instance, and no pipeline is evicted from the
\* pipeline cache: every instance that was created is still stored.
C25_OnePipelinePerCategory ==
  /\ Len(pipelineCache) <= PipelineCacheMax
  /\ Cardinality(CachedPipelines) = pipelineCount
  /\ \A class \in {"GrayscalePipeline", "ColorRgbPipeline"} :
       Cardinality({pipeline \in CachedPipelines : pipeline.class = class}) <= 1
  /\ \A i, j \in 1..Len(calls) :
       (/\ calls[i].pipeline # None
        /\ calls[j].pipeline # None
        /\ calls[i].pipeline[1].class = calls[j].pipeline[1].class) =>
         calls[i].pipeline = calls[j].pipeline

\* The buffers a call created.
BuffersOf(i) == {[call |-> i, label |-> l] : l \in BufferLabels}

\* The calls that were given a grayscale pipeline.
GrayscaleCalls ==
  {i \in 1..Len(calls) :
     calls[i].pipeline # None /\ calls[i].pipeline[1].class = "GrayscalePipeline"}

\* The frames the render calls can assemble.
AssembledFrames ==
  LET assembled ==
        {createImageFrame(request.dicomDataBuffer[1], request.options, "FrameDecoderApi",
                          outcome) :
           request \in {r \in Requests : r.dicomDataBuffer # None},
           outcome \in CodecOutcomes}
  IN  {a.value : a \in {r \in assembled : r.error = Undefined}}

\* What GrayscalePipeline.render can return for each grayscale frame of
\* AssembledFrames.
GrayscaleOutputs ==
  [imageFrame \in {f \in AssembledFrames :
                     f.photometricInterpretation \in {"MONOCHROME1", "MONOCHROME2"}} |->
     {Some(GrayscaleRender(imageFrame, nan)) : nan \in NanOutcomes}]

\* What GrayscalePipeline.render can return for a frame.
GrayscaleRendersOf(imageFrame) ==
  IF imageFrame \in DOMAIN GrayscaleOutputs
  THEN GrayscaleOutputs[imageFrame]
  ELSE {Some(GrayscaleRender(imageFrame, nan)) : nan \in NanOutcomes}

\* C26: overlapping grayscale render calls that use the same cached pipeline
\* do not interfere.  The shared pipeline keeps the fields initialize gave
\* it; a frame that was cached is handed unchanged to the calls that hit it;
\* a call that waits for its result buffer still has the three buffers it
\* created, whichever other calls have completed, and a call that got its
\* result has destroyed them and returned the RGBA output of its own frame.
C26_OverlappingRendersIndependent ==
  \A i \in GrayscaleCalls :
    /\ calls[i].pipeline[1] =
         GrayscaleInitialize(NewPipeline("GrayscalePipeline", calls[i].pipeline[1].id),
                             calls[i].pipeline[1].device)
    /\ MapGet(pipelineCache, calls[i].imageFrame[1].photometricInterpretation)
         = calls[i].pipeline
    /\ calls[i].cacheHit =>
         \E j \in 1..(i - 1) :
           /\ calls[j].stored
           /\ calls[j].options.cacheKey = calls[i].options.cacheKey
           /\ calls[j].imageFrame = calls[i].imageFrame
    /\ calls[i].pc = "mapAsync" => BuffersOf(i) \subseteq gpuBuffers
    /\ calls[i].pc \in {"awaitRender", "fulfilled"} =>
         /\ BuffersOf(i) \cap gpuBuffers = {}
         /\ calls[i].result \in GrayscaleRendersOf(calls[i].imageFrame[1])

\* Two grayscale calls on different frames overlapped on the same pipeline
\* instance; the later one got its result first, then the earlier one, and
\* the two results differ.
C26_Witness ==
  \E i, j \in GrayscaleCalls :
    /\ i < j
    /\ i \in calls[j].overlapped
    /\ calls[i].pipeline = calls[j].pipeline
    /\ calls[i].imageFrame # calls[j].imageFrame
    /\ calls[i].pc = "awaitRender"
    /\ calls[j].pc = "fulfilled"
    /\ calls[i].result # calls[j].result

(***************************************************************************)
(* Properties of the frame cache in render (Spec)                          *)
(***************************************************************************)
\* What the pipeline of a frame returns for it.
RendersOf(imageFrame) ==
  IF imageFrame.photometricInterpretation \in {"MONOCHROME1", "MONOCHROME2"}
  THEN GrayscaleRendersOf(imageFrame)
  ELSE {Some(ColorRgbRender(imageFrame))}

\* The calls before call i that stored a frame under the cacheKey of call i.
Populating(i) ==
  {j \in 1..(i - 1) :
     calls[j].stored /\ calls[j].options.cacheKey = calls[i].options.cacheKey}

\* C27: a render call whose cacheKey was populated by an earlier call, and
\* which is given a GPU device and a container, hits the frame cache and
\* uses the cached ImageFrame and nothing upstream of it: it does not
\* assemble or decode, whatever container bytes and frameIndex it passes, and
\* what it returns is what the pipeline returns for the frame of the
\* populating call.  A call whose cacheKey is absent or empty neither reads
\* nor writes the frame cache.
C27_HitShortCircuits ==
  \A i \in 1..Len(calls) :
    /\ (/\ UsesCacheKey(calls[i].options)
        /\ Populating(i) # {}
        /\ calls[i].gpuDevice # Undefined
        /\ calls[i].dicomDataBuffer # None) =>
         /\ calls[i].cacheHit
         /\ ~calls[i].imageFrameCreated
         /\ calls[i].decodeCalls = 0
         /\ ~calls[i].stored
         /\ \E j \in Populating(i) : calls[j].imageFrame = calls[i].imageFrame
         /\ calls[i].pc \in {"awaitRender", "fulfilled"} =>
              calls[i].result \in RendersOf(calls[i].imageFrame[1])
    /\ ~UsesCacheKey(calls[i].options) =>
         /\ ~calls[i].cacheHit
         /\ ~calls[i].stored
         /\ calls[i].imageFrame # None => calls[i].imageFrameCreated

\* A call populated a cacheKey and returned; a second call with that
\* cacheKey and another container, or another frameIndex, hit the cache and
\* returned the output of the first call's frame.
C27_Witness ==
  \E i \in 2..Len(calls) :
    \E j \in Populating(i) :
      /\ calls[i].cacheHit
      /\ \/ calls[i].dicomDataBuffer # calls[j].dicomDataBuffer
         \/ calls[i].options.frameIndex # calls[j].options.frameIndex
      /\ calls[j].pc = "fulfilled"
      /\ calls[i].pc = "fulfilled"
      /\ calls[i].result = calls[j].result

\* C28: a render call that fails leaves both caches as they were before the
\* call: it stored no ImageFrame in the frame cache, and the pipeline it was
\* given, if any, is one an earlier call had already put in the pipeline
\* cache.
C28_FailedCallLeavesCaches ==
  \A i \in 1..Len(calls) :
    (calls[i].pc = "rejected" /\ calls[i].error # Undefined) =>
      /\ ~calls[i].stored
      /\ calls[i].pipeline # None =>
           \E j \in 1..(i - 1) : calls[j].pipeline = calls[i].pipeline

====
